---------------------------- MODULE Spec2Model ----------------------------
(***************************************************************************)
(* A model of vectorized2d: Array2D (array2d.py), Point2D (point2d.py),    *)
(* Vector2D (vector2d.py) and Coordinate (coordinate.py).                  *)
(*                                                                         *)
(* Python values are records tagged by their type in field t:              *)
(*   an ndarray or a subclass   [t |-> class, shape |-> <<..>>, data |-> ] *)
(*       data is the buffer in row-major (C) order                         *)
(*   a float scalar             [t |-> "float", v |-> n]                   *)
(*   a bool                     [t |-> "bool",  v |-> b]                   *)
(*   a list                     [t |-> "list",  items |-> <<..>>]          *)
(*   a tuple                    [t |-> "tuple", items |-> <<..>>]          *)
(*   a raised exception         [t |-> "raise", exc |-> name]              *)
(*                                                                         *)
(* Floats are modelled on the integer grid: +, - and * are exact, sqrt and *)
(* / round to the nearest grid value (as the IEEE operations round to the  *)
(* nearest representable value), and x / 0 is the marker NaN. Angles are   *)
(* grid values in radians: pi is 3, 2 * pi is 6, and cos, sin, arcsin,     *)
(* arctan2, deg2rad and rad2deg give the true result rounded to the        *)
(* nearest grid value. A result beyond MaxFloat is an infinity, so that a  *)
(* distance in metres between two grid coordinates one radian apart, whose *)
(* square is beyond MaxFloat, is Inf.                                      *)
(*                                                                         *)
(* The state is the array the caller holds (self) and the call that just   *)
(* returned (ret). A call is made between two calls (ret = Idle); it       *)
(* records its arguments and its result in ret and leaves self alone. The  *)
(* caller then drops the result (Return) or goes on with it as the next    *)
(* receiver (Adopt, AdoptItem, AdoptHeld), which chains the operations.    *)
(*                                                                         *)
(* Spec has the calls on Array2D and Point2D, SpecGeometry those on        *)
(* Point2D, Vector2D and Coordinate that take a second operand or an       *)
(* angle.                                                                  *)
(***************************************************************************)
EXTENDS Integers, Sequences, FiniteSets, TLC

\* ------------------------------------------------------------------ bounds
\* the largest row count of a receiver or operand
MaxRows == 2
\* the largest repeat count
MaxRep == 2
\* the component values inputs are built from
Vals == {0, 3}
\* the longest flat input: one element more than MaxRows rows, so odd sizes occur
MaxLen == 2 * MaxRows + 1
\* the largest number of points of a circle or an ellipse
MaxPoints == 5
\* the largest finite float: a result beyond it is an infinity
MaxFloat == 500000000

\* ------------------------------------------------------------ float model
NaN == 0 - 1000000

Abs(n) == IF n < 0 THEN -n ELSE n

\* the square root, rounded to the nearest grid value
Sqrt(n) ==
  IF n = NaN \/ n < 0 THEN NaN
  ELSE IF n = 0 THEN 0
  ELSE CHOOSE r \in 1..n : (2 * r - 1) * (2 * r - 1) < 4 * n /\ 4 * n < (2 * r + 1) * (2 * r + 1)

\* the quotient, rounded to the nearest grid value (halves away from zero)
Div(x, d) ==
  IF x = NaN \/ d = NaN \/ d = 0 THEN NaN
  ELSE LET q == (2 * Abs(x) + Abs(d)) \div (2 * Abs(d))
       IN  IF (x < 0) = (d < 0) THEN q ELSE -q

RECURSIVE SeqSum(_)
SeqSum(s) == IF s = <<>> THEN 0 ELSE Head(s) + SeqSum(Tail(s))

RECURSIVE SeqProd(_)
SeqProd(s) == IF s = <<>> THEN 1 ELSE Head(s) * SeqProd(Tail(s))

RECURSIVE Flatten(_)
Flatten(ss) == IF ss = <<>> THEN <<>> ELSE Head(ss) \o Flatten(Tail(ss))

\* ---------------------------------------------------------- Python values
None == [t |-> "None"]
Raise(e) == [t |-> "raise", exc |-> e]
Float(n) == [t |-> "float", v |-> n]
Bool(b) == [t |-> "bool", v |-> b]
List(s) == [t |-> "list", items |-> s]
NdArray(cls, shape, data) == [t |-> cls, shape |-> shape, data |-> data]

Classes == {"Array2D", "Point2D"}
ArrayTypes == Classes \cup {"Vector2D", "Coordinate", "ndarray"}
IsArray(x) == x.t \in ArrayTypes
IsRaise(x) == x.t = "raise"

\* len(a): the length of the first axis
len(a) == a.shape[1]
size(a) == Len(a.data)

\* ------------------------------------------------------------ numpy pieces
\* np.asarray(input, dtype=float): a flat list (ndim 1), a list of equally
\* long lists (ndim 2), or an array, which is taken as it is
asarray(input) ==
  IF IsArray(input) THEN NdArray("ndarray", input.shape, input.data)
  ELSE IF input.ndim = 1 THEN NdArray("ndarray", <<Len(input.items)>>, input.items)
  ELSE NdArray("ndarray",
               <<Len(input.items), IF input.items = <<>> THEN 0 ELSE Len(input.items[1])>>,
               Flatten(input.items))

\* reshape(2, -1) in place of reshape(-1, 2)
reshape_2_m1(a) ==
  IF size(a) % 2 # 0 THEN Raise("ValueError")
  ELSE NdArray(a.t, <<2, size(a) \div 2>>, a.data)

\* ndarray.reshape(-1, 2)
reshape_m1_2(a) ==
  IF size(a) % 2 # 0 THEN Raise("ValueError")
  ELSE NdArray(a.t, <<size(a) \div 2, 2>>, a.data)

\* ndarray.view(cls)
view(a, cls) == IF IsRaise(a) THEN a ELSE NdArray(cls, a.shape, a.data)

\* ---------------------------------------------------------------- Array2D
\* Array2D.__new__
new(cls, input_array) == view(reshape_m1_2(asarray(input_array)), cls)

\* row i (0-based) of an N x 2 array, as a pair
Row(a, i) == <<a.data[2 * i + 1], a.data[2 * i + 2]>>

\* the product of the axis lengths in shape
RECURSIVE ShapeSize(_)
ShapeSize(shape) == IF shape = <<>> THEN 1 ELSE Head(shape) * ShapeSize(Tail(shape))

\* np.concatenate(arrays): along axis 0; the other axes must agree
\* the arrays joined last to first
RECURSIVE JoinDataReversed(_)
JoinDataReversed(arrays) ==
  IF arrays = <<>> THEN <<>> ELSE JoinDataReversed(Tail(arrays)) \o Head(arrays).data

RECURSIVE JoinData(_)
JoinData(arrays) == IF arrays = <<>> THEN <<>> ELSE Head(arrays).data \o JoinData(Tail(arrays))

\* np.concatenate(arrays): along axis 0; the other axes must agree
RECURSIVE JoinLen(_)
JoinLen(arrays) == IF arrays = <<>> THEN 0 ELSE len(Head(arrays)) + JoinLen(Tail(arrays))

concatenate(arrays) ==
  IF arrays = <<>> THEN Raise("ValueError")
  ELSE IF \E k \in 1..Len(arrays) : Tail(arrays[k].shape) # Tail(arrays[1].shape)
    THEN Raise("ValueError")
  ELSE NdArray(arrays[1].t, <<JoinLen(arrays)>> \o Tail(arrays[1].shape), JoinData(arrays))

\* the arrays joined side by side (axis 1) in place of one below the other
concat_axis1(cls, arrays) ==
  IF arrays = <<>> THEN Raise("ValueError")
  ELSE IF \E k \in 1..Len(arrays) : len(arrays[k]) # len(arrays[1]) THEN Raise("ValueError")
  ELSE NdArray(cls, <<len(arrays[1]), 2 * Len(arrays)>>,
               Flatten([i \in 1..len(arrays[1]) |->
                          Flatten([k \in 1..Len(arrays) |-> Row(arrays[k], i - 1)])]))

\* Array2D.concat
concat(cls, arrays) == view(concatenate(arrays), cls)

\* ndarray.repeat(repeats, axis=0) on an N x 2 array: repeats is an int or a
\* sequence that broadcasts to N counts (its length is 1 or N)
RepeatCount(a, repeats, i) ==
  IF repeats.t = "int" THEN repeats.v
  ELSE IF Len(repeats.items) = 1 THEN repeats.items[1] ELSE repeats.items[i + 1]

RECURSIVE Copies(_, _)
Copies(row, n) == IF n = 0 THEN <<>> ELSE row \o Copies(row, n - 1)

RECURSIVE RepeatFrom(_, _, _)
RepeatFrom(a, repeats, i) ==
  IF i >= len(a) THEN <<>>
  ELSE Copies(Row(a, i), RepeatCount(a, repeats, i)) \o RepeatFrom(a, repeats, i + 1)

ndarray_repeat(a, repeats) ==
  IF repeats.t = "seq" /\ Len(repeats.items) \notin {1, len(a)} THEN Raise("ValueError")
  ELSE IF \E i \in 0..(len(a) - 1) : RepeatCount(a, repeats, i) < 0 THEN Raise("ValueError")
  ELSE LET data == RepeatFrom(a, repeats, 0)
       IN  NdArray(a.t, <<Len(data) \div 2, 2>>, data)

\* repeat without axis=0: numpy repeats the components of the flattened array
repeat_axis_none(self_, repeats) ==
  IF repeats.t # "int" \/ repeats.v < 0 THEN Raise("ValueError")
  ELSE LET data == Flatten([k \in 1..size(self_) |-> [c \in 1..repeats.v |-> self_.data[k]]])
       IN  NdArray(self_.t, <<Len(data)>>, data)

\* Array2D.repeat
repeat(self_, repeats) == ndarray_repeat(self_, repeats)

\* Array2D._array_equal: the loop over range(len(a)) with its early return
RECURSIVE array_equal_from(_, _, _)
array_equal_from(a, b, i) ==
  IF i >= len(a) THEN TRUE
  ELSE IF ~(a.data[2 * i + 1] = b.data[2 * i + 1] /\ a.data[2 * i + 2] = b.data[2 * i + 2]) THEN FALSE
  ELSE array_equal_from(a, b, i + 1)

\* the comparison of the first components alone
array_equal_x1_only(a, b) == \A i \in 0..(len(a) - 1) : a.data[2 * i + 1] = b.data[2 * i + 1]

array_equal(a, b) == array_equal_from(a, b, 0)

\* Array2D.__eq__
eq(self_, other) ==
  IF self_.t # other.t \/ len(self_) # len(other) THEN Bool(FALSE)
  ELSE Bool(array_equal(self_, other))

\* Array2D.__ne__
ne(self_, other) == Bool(~eq(self_, other).v)

\* ndarray.__getitem__(i) for an int i: the i-th entry along axis 0, one
\* dimension less
ndarray_getitem_int(a, i) ==
  IF i < -len(a) \/ i >= len(a) THEN Raise("IndexError")
  ELSE LET k == IF i < 0 THEN i + len(a) ELSE i
           w == ShapeSize(Tail(a.shape))
       IN  NdArray(a.t, Tail(a.shape), SubSeq(a.data, k * w + 1, (k + 1) * w))

\* slice(start, stop).indices(n), step 1
SliceIndex(n, v) == IF v < 0 THEN (IF v + n < 0 THEN 0 ELSE v + n) ELSE (IF v > n THEN n ELSE v)

\* ndarray.__getitem__(slice(start, stop)): rows start..stop-1, same dimensions
ndarray_getitem_slice(a, start, stop) ==
  LET lo == SliceIndex(len(a), start)
      hi == SliceIndex(len(a), stop)
      w  == ShapeSize(Tail(a.shape))
      n  == IF hi > lo THEN hi - lo ELSE 0
  IN  NdArray(a.t, <<n>> \o Tail(a.shape), SubSeq(a.data, lo * w + 1, (lo + n) * w))

\* the index without the added axis
no_newaxis(a) == a

\* a[np.newaxis]
newaxis(a) == IF IsRaise(a) THEN a ELSE NdArray(a.t, <<1>> \o a.shape, a.data)

\* Array2D.__getitem__: item is an int or a slice
getitem(self_, item) ==
  IF item.t = "int" THEN newaxis(ndarray_getitem_int(self_, item.v))
  ELSE ndarray_getitem_slice(self_, item.start, item.stop)

\* a[:, j] of an N x 2 array
column(a, j) == NdArray(a.t, <<len(a)>>, [k \in 1..len(a) |-> a.data[2 * (k - 1) + j + 1]])

\* Array2D.x1, Array2D.x2
x1(self_) == column(view(self_, "ndarray"), 0)
x2(self_) == column(view(self_, "ndarray"), 1)

\* Array2D.split
split(self_) ==
  List([k \in 1..len(self_) |-> getitem(self_, [t |-> "slice", start |-> k - 1, stop |-> k])])

\* Array2D._norm, Array2D.norm
norm(self_) ==
  NdArray("ndarray", <<len(self_)>>,
          [k \in 1..len(self_) |-> Sqrt(Row(self_, k - 1)[1] * Row(self_, k - 1)[1]
                                        + Row(self_, k - 1)[2] * Row(self_, k - 1)[2])])

\* Array2D._norm_squared, Array2D.norm_squared
norm_squared(self_) ==
  NdArray("ndarray", <<len(self_)>>,
          [k \in 1..len(self_) |-> Row(self_, k - 1)[1] * Row(self_, k - 1)[1]
                                   + Row(self_, k - 1)[2] * Row(self_, k - 1)[2]])

\* a[:, np.newaxis] of a 1-D array
column_vector(a) == NdArray(a.t, <<len(a), 1>>, a.data)

\* the norms without the zeros replaced
zeros_kept(a) == a

\* a[a == 0] = 1
zeros_to_one(a) == NdArray(a.t, a.shape, [k \in 1..Len(a.data) |-> IF a.data[k] = 0 THEN 1 ELSE a.data[k]])

\* a / d for an N x 2 array a and an N x 1 array d: d is broadcast along axis 1
truediv(a, d) ==
  NdArray(a.t, a.shape, [k \in 1..Len(a.data) |-> Div(a.data[k], d.data[(k + 1) \div 2])])

\* Array2D.normalized
normalized(self_) == truediv(self_, zeros_to_one(column_vector(norm(self_))))

\* one reduction of a sequence of components
ReduceSeq(fn, s) ==
  CASE fn = "min"  -> CHOOSE m \in {s[k] : k \in 1..Len(s)} : \A k \in 1..Len(s) : m <= s[k]
    [] fn = "max"  -> CHOOSE m \in {s[k] : k \in 1..Len(s)} : \A k \in 1..Len(s) : m >= s[k]
    [] fn = "sum"  -> SeqSum(s)
    [] fn = "prod" -> SeqProd(s)
    [] fn = "mean" -> Div(SeqSum(s), Len(s))
    [] fn = "var"  -> IF s = <<>> THEN NaN
                      ELSE LET m == Div(SeqSum(s), Len(s))
                           IN  Div(SeqSum([k \in 1..Len(s) |-> (s[k] - m) * (s[k] - m)]), Len(s))
    [] fn = "std"  -> IF s = <<>> THEN NaN
                      ELSE LET m == Div(SeqSum(s), Len(s))
                           IN  Sqrt(Div(SeqSum([k \in 1..Len(s) |-> (s[k] - m) * (s[k] - m)]), Len(s)))

\* the sequences an N x C array is reduced over: everything (axis None), each
\* column (axis 0), each row (axis 1)
Lanes(a, axis) ==
  LET n == a.shape[1]
      c == a.shape[2]
  IN  IF axis.t = "None" THEN <<a.data>>
      ELSE IF axis.v = 0 THEN [j \in 1..c |-> [i \in 1..n |-> a.data[(i - 1) * c + j]]]
      ELSE [i \in 1..n |-> [j \in 1..c |-> a.data[(i - 1) * c + j]]]

\* ndarray.min / max / sum / prod / mean / std / var (axis): min and max of
\* nothing raise; the result of reducing a plain ndarray to zero dimensions is
\* a scalar, a subclass keeps its type
ndarray_reduce(fn, a, axis) ==
  IF axis.t = "int" /\ axis.v \notin {0, 1} THEN Raise("AxisError")
  ELSE IF fn \in {"min", "max"} /\ \E k \in 1..Len(Lanes(a, axis)) : Lanes(a, axis)[k] = <<>>
    THEN Raise("ValueError")
  ELSE LET out == [k \in 1..Len(Lanes(a, axis)) |-> ReduceSeq(fn, Lanes(a, axis)[k])]
       IN  IF axis.t = "None"
             THEN (IF a.t = "ndarray" THEN Float(out[1]) ELSE NdArray(a.t, <<>>, out))
             ELSE NdArray(a.t, <<Len(out)>>, out)

\* the reduction of the array as it is, not of its ndarray view
min_no_view(self_, axis) == ndarray_reduce("min", self_, axis)

\* Array2D.min, max, sum, prod, mean, std, var
min(self_, axis) == ndarray_reduce("min", view(self_, "ndarray"), axis)
max(self_, axis) == ndarray_reduce("max", view(self_, "ndarray"), axis)
sum(self_, axis) == ndarray_reduce("sum", view(self_, "ndarray"), axis)
prod(self_, axis) == ndarray_reduce("prod", view(self_, "ndarray"), axis)
mean(self_, axis) == ndarray_reduce("mean", view(self_, "ndarray"), axis)
std(self_, axis) == ndarray_reduce("std", view(self_, "ndarray"), axis)
var(self_, axis) == ndarray_reduce("var", view(self_, "ndarray"), axis)

Reductions == {"min", "max", "sum", "prod", "mean", "std", "var"}

reduction(fn, self_, axis) ==
  CASE fn = "min"  -> min(self_, axis)
    [] fn = "max"  -> max(self_, axis)
    [] fn = "sum"  -> sum(self_, axis)
    [] fn = "prod" -> prod(self_, axis)
    [] fn = "mean" -> mean(self_, axis)
    [] fn = "std"  -> std(self_, axis)
    [] fn = "var"  -> var(self_, axis)

\* ---------------------------------------------------------------- Point2D
\* a - b for an N x 2 and an M x 2 array: the row counts must be equal or one
\* of them 1, and the one row is then used for every row of the other
sub(a, b) ==
  IF len(a) # len(b) /\ len(a) # 1 /\ len(b) # 1 THEN Raise("ValueError")
  ELSE LET rows == IF len(a) = 1 THEN len(b) ELSE len(a)
           ia(k) == IF len(a) = 1 THEN ((k - 1) % 2) + 1 ELSE k
           ib(k) == IF len(b) = 1 THEN ((k - 1) % 2) + 1 ELSE k
       IN  NdArray(a.t, <<rows, 2>>, [k \in 1..(2 * rows) |-> a.data[ia(k)] - b.data[ib(k)]])

\* ndarray.reshape(shape)
reshape(a, shape) ==
  IF ShapeSize(shape) # size(a) THEN Raise("ValueError") ELSE NdArray(a.t, shape, a.data)

\* the pairs in the order of other's rows: (1, N, 2) - (M, 1, 2)
pairwise_diff_other_major(self_, other) ==
  LET n == len(self_)
      m == len(other)
      diff == NdArray("ndarray", <<m, n, 2>>,
                      [k \in 1..(n * m * 2) |->
                         LET j == (k - 1) \div (2 * n)
                             i == ((k - 1) \div 2) % n
                             c == (k - 1) % 2
                         IN  self_.data[2 * i + c + 1] - other.data[2 * j + c + 1]])
  IN  reshape_m1_2(diff)

\* Point2D._pairwise_diff: (N, 1, 2) - (1, M, 2) is (N, M, 2), then reshape(-1, 2)
pairwise_diff(self_, other) ==
  LET n == len(self_)
      m == len(other)
      diff == NdArray("ndarray", <<n, m, 2>>,
                      [k \in 1..(n * m * 2) |->
                         LET i == (k - 1) \div (2 * m)
                             j == ((k - 1) \div 2) % m
                             c == (k - 1) % 2
                         IN  self_.data[2 * i + c + 1] - other.data[2 * j + c + 1]])
  IN  reshape_m1_2(diff)

Pairings == {"ALL", "ALIGNED"}

\* euclid_dist without the test of the pairing: aligned only for a 1-row operand
euclid_dist_pairwise(self_, other, pairing) ==
  LET diff  == IF len(self_) = 1 \/ len(other) = 1
                 THEN sub(self_, other)
                 ELSE view(pairwise_diff(self_, other), self_.t)
      dists == IF IsRaise(diff) THEN diff ELSE norm(diff)
  IN  IF IsRaise(dists) THEN dists
      ELSE IF pairing = "ALL" THEN reshape(dists, <<len(self_), len(other)>>)
      ELSE dists

\* Point2D.euclid_dist
euclid_dist(self_, other, pairing) ==
  LET diff  == IF pairing = "ALIGNED" \/ len(self_) = 1 \/ len(other) = 1
                 THEN sub(self_, other)
                 ELSE view(pairwise_diff(self_, other), self_.t)
      dists == IF IsRaise(diff) THEN diff ELSE norm(diff)
  IN  IF IsRaise(dists) THEN dists
      ELSE IF pairing = "ALL" THEN reshape(dists, <<len(self_), len(other)>>)
      ELSE dists

\* Point2D.euclid_dist_squared
euclid_dist_squared(self_, other, pairing) ==
  LET diff  == IF pairing = "ALIGNED" \/ len(self_) = 1 \/ len(other) = 1
                 THEN sub(self_, other)
                 ELSE view(pairwise_diff(self_, other), self_.t)
      dists == IF IsRaise(diff) THEN diff ELSE norm_squared(diff)
  IN  IF IsRaise(dists) THEN dists
      ELSE IF pairing = "ALL" THEN reshape(dists, <<len(self_), len(other)>>)
      ELSE dists

\* ------------------------------------------------------------------ angles
\* np.pi, math.pi: the grid value nearest to pi
Pi == 3

\* 2 * np.pi
TwoPi == 2 * Pi

\* np.cos of a grid value, rounded to the nearest grid value: the entry at
\* |x| + 1 is the rounded cosine of |x| radians, |x| in 0..24; nan beyond,
\* as for an infinity
Cos(x) ==
  IF x = NaN \/ Abs(x) > 24 THEN NaN
  ELSE <<1, 1, 0, -1, -1, 0, 1, 1, 0, -1, -1, 0, 1, 1, 0, -1, -1, 0, 1, 1, 0, -1, -1, -1, 0>>[Abs(x) + 1]

\* np.sin of a grid value, rounded likewise; odd
Sin(x) ==
  IF x = NaN \/ Abs(x) > 24 THEN NaN
  ELSE (IF x < 0 THEN -1 ELSE 1)
         * <<0, 1, 1, 0, -1, -1, 0, 1, 1, 0, -1, -1, -1, 0, 1, 1, 0, -1, -1, 0, 1, 1, 0, -1, -1>>[Abs(x) + 1]

\* np.arcsin, rounded: arcsin(1) = pi / 2 is nearest to 2; nan outside [-1, 1]
Arcsin(x) == IF x = NaN \/ Abs(x) > 1 THEN NaN ELSE 2 * x

\* the slope |y| / |x| of a direction, in hundredths
Slope(y, x) ==
  IF Abs(y) <= 20000000 THEN (Abs(y) * 100) \div Abs(x)
  ELSE IF Abs(x) < 100 THEN Abs(y)
  ELSE Abs(y) \div (Abs(x) \div 100)

\* np.arctan2(|y|, x): the angle in 0..3 nearest to the direction's. It is
\* nearest to 0 below the slope tan(0.5) = 0.55, to 1 below tan(1.5) = 14.10
\* and to 2 up to the vertical; left of the vertical it is nearest to 2 down
\* to the slope tan(pi - 2.5) = 0.75 and to 3 (pi) below it
ArctanUpper(y, x) ==
  IF y = 0 THEN (IF x >= 0 THEN 0 ELSE 3)
  ELSE IF x = 0 THEN 2
  ELSE IF x > 0 THEN (IF Slope(y, x) < 55 THEN 0 ELSE IF Slope(y, x) < 1410 THEN 1 ELSE 2)
  ELSE (IF Slope(y, x) < 75 THEN 3 ELSE 2)

\* np.arctan2(y, x), rounded to the nearest grid value in -3..3: the sign is y's
Arctan2(y, x) ==
  IF y = NaN \/ x = NaN THEN NaN
  ELSE IF y < 0 THEN -ArctanUpper(y, x) ELSE ArctanUpper(y, x)

\* np.deg2rad and np.rad2deg, rounded (pi taken as 355 / 113)
deg2rad(x) == IF x = NaN THEN NaN ELSE Div(x * 355, 113 * 180)
rad2deg(x) == IF x = NaN THEN NaN ELSE Div(x * 113 * 180, 355)

\* the infinities: what a result beyond the largest finite float becomes
Inf == MaxFloat + 1
IsInf(x) == x # NaN /\ Abs(x) > MaxFloat

\* x + y of floats
Add(x, y) ==
  IF IsInf(x) /\ IsInf(y) THEN (IF x = y THEN x ELSE NaN)
  ELSE IF IsInf(x) THEN x
  ELSE IF IsInf(y) THEN y
  ELSE IF x > 0 /\ y > MaxFloat - x THEN Inf
  ELSE IF x < 0 /\ y < (-MaxFloat) - x THEN -Inf
  ELSE x + y

\* x * y of floats
Mul(x, y) ==
  IF x = 0 \/ y = 0 THEN (IF IsInf(x) \/ IsInf(y) THEN NaN ELSE 0)
  ELSE IF IsInf(x) \/ IsInf(y) \/ Abs(x) > MaxFloat \div Abs(y)
    THEN (IF (x < 0) = (y < 0) THEN Inf ELSE -Inf)
  ELSE x * y

\* --------------------------------------------------------- decimal floats
\* Floats finer than the grid, for results that are compared within a
\* tolerance: a float of six significant decimal digits, m * 10^e with
\* 10^5 <= |m| < 10^6 (or m = 0), is the integer
\* DecBase + ((e + DecBias) * 2 + s) * 10^6 + |m|, s = 1 for a negative m. All
\* of them lie above Inf, so no grid value is one of them. Sums, products and
\* quotients are rounded to six digits, as a float64's are to 53 bits; the
\* functions are computed from their series to that precision.
RECURSIVE Pow10(_)
Pow10(n) == IF n <= 0 THEN 1 ELSE 10 * Pow10(n - 1)

\* the offset of the exponent, 10^6 and the code of 0.0
DecBias == 20
DecOne == 1000 * 1000
DecBase == 1000 * DecOne

IsDec(x) == x >= DecBase

\* the sign bit, the signed mantissa and the exponent of a decimal float
DecSign(x) == ((x - DecBase) \div DecOne) % 2
DecMant(x) == IF DecSign(x) = 1 THEN -((x - DecBase) % DecOne) ELSE (x - DecBase) % DecOne
DecExp(x) == (((x - DecBase) \div DecOne) \div 2) - DecBias

\* the positive float m * 10^e of a mantissa m of six digits
DecFloat(m, e) == DecBase + (e + DecBias) * 2 * DecOne + m

\* m * 10^e rounded to six digits: the decimal float it is stored as; a value
\* under the smallest exponent is 0, one above the largest is NaN
RECURSIVE Dec(_, _)
Dec(m, e) ==
  IF m = 0 \/ m = NaN \/ e < -(DecBias + 9) THEN DecBase
  ELSE IF Abs(m) >= DecOne THEN Dec(Div(m, 10), e + 1)
  ELSE IF Abs(m) < DecOne \div 10 THEN Dec(m * 10, e - 1)
  ELSE IF e < -DecBias THEN DecBase
  ELSE IF e > 31 - DecBias THEN NaN
  ELSE DecFloat(Abs(m), e) + (IF m < 0 THEN DecOne ELSE 0)

\* -x, |x| and x < y: the codes of the positive floats are in the order of
\* their values
DecNeg(x) ==
  IF x = NaN \/ x = DecBase THEN x ELSE IF DecSign(x) = 1 THEN x - DecOne ELSE x + DecOne
DecAbs(x) == IF x # NaN /\ DecSign(x) = 1 THEN x - DecOne ELSE x
DecOrder(x) == IF DecSign(x) = 1 THEN -(x - DecBase - DecOne) ELSE x - DecBase
DecLess(x, y) == DecOrder(x) < DecOrder(y)

\* the sum of x and y for an exponent of x that is not under the one of y, d
\* their difference: the mantissas are brought to one exponent
DecSum(x, y, d) ==
  Dec(IF d > 9 THEN DecMant(x)
      ELSE IF d <= 3 THEN DecMant(x) * Pow10(d) + DecMant(y)
      ELSE DecMant(x) * 1000 + Div(DecMant(y), Pow10(d - 3)),
      IF d > 9 THEN DecExp(x) ELSE IF d <= 3 THEN DecExp(y) ELSE DecExp(x) - 3)

DecAdd(x, y) ==
  IF x = DecBase THEN y
  ELSE IF y = DecBase THEN x
  ELSE DecSum(IF DecExp(x) >= DecExp(y) THEN x ELSE y, IF DecExp(x) >= DecExp(y) THEN y ELSE x,
              Abs(DecExp(x) - DecExp(y)))

\* |a| * |b| / 1000 for mantissas a and b, without leaving 32 bits
MantProduct(a, b) ==
  (a \div 1000) * (b \div 1000) * 1000
    + (a \div 1000) * (b % 1000) + (a % 1000) * (b \div 1000)
    + Div((a % 1000) * (b % 1000), 1000)

\* |a| / |b| * 10^7 for mantissas a and b, by long division
MantQuotient(a, b) ==
  (((a * 1000) \div b) * 1000 + ((((a * 1000) % b) * 1000) \div b)) * 10
    + ((((((a * 1000) % b) * 1000) % b) * 10) \div b)

\* x * y, and x / y for a y that is not 0
DecProduct(x, y, quotient) ==
  Dec((IF DecSign(x) = DecSign(y) THEN 1 ELSE -1)
        * (IF quotient THEN MantQuotient(Abs(DecMant(x)), Abs(DecMant(y)))
           ELSE MantProduct(Abs(DecMant(x)), Abs(DecMant(y)))),
      IF quotient THEN DecExp(x) - DecExp(y) - 7 ELSE DecExp(x) + DecExp(y) + 3)

\* 1, 1/2, pi, 2 pi and pi / 2
DecUnit == DecFloat(100000, -5)
DecHalf == DecFloat(500000, -6)
DecPi == DecFloat(314159, -5)
DecTwoPi == DecFloat(628319, -5)
DecHalfPi == DecFloat(157080, -5)

\* the operations on decimal floats by name, the one-argument functions with
\* their argument as x; the ones below are written with it
RECURSIVE DecEval(_, _, _)

\* two of Newton's steps for the square root of x, from the estimate g
RECURSIVE DecSqrtSteps(_, _, _)
DecSqrtSteps(x, g, n) ==
  IF n = 0 THEN g
  ELSE DecSqrtSteps(x, DecEval("*", DecHalf, DecEval("+", g, DecEval("/", x, g))), n - 1)

\* the square root of x = m * 10^e for an even e, from the grid root of m
DecSqrtEven(x, m, e) ==
  DecSqrtSteps(x, DecEval("*", Sqrt(m), DecFloat(100000, (e \div 2) - 5)), 2)

DecSqrt(x) ==
  IF DecSign(x) = 1 THEN NaN
  ELSE IF x = DecBase THEN x
  ELSE DecSqrtEven(x, IF DecExp(x) % 2 = 0 THEN DecMant(x) ELSE DecMant(x) * 10,
                   IF DecExp(x) % 2 = 0 THEN DecExp(x) ELSE DecExp(x) - 1)

\* the integer next under x (floor), for |x| < 10^9
DecFloor(x) ==
  IF DecExp(x) >= 0 THEN DecMant(x) * Pow10(DecExp(x))
  ELSE DecMant(x) \div Pow10(IF DecExp(x) < -9 THEN 9 ELSE -DecExp(x))

\* x % (2 * pi): x - floor(x / (2 pi)) * 2 pi
DecMod2Pi(x) == DecEval("-", x, DecEval("*", DecFloor(DecEval("/", x, DecTwoPi)), DecTwoPi))

\* the terms of the sine series of y from term on: term is the one of degree
\* k - 2, ysq is y * y
RECURSIVE SinSeries(_, _, _)
SinSeries(term, ysq, k) ==
  IF k > 17 \/ term = NaN \/ term = DecBase THEN term
  ELSE DecEval("+", term,
               SinSeries(DecNeg(DecEval("/", DecEval("*", term, ysq), k * (k - 1))), ysq, k + 2))

\* the sine of y in [0, 2 pi), from the series at an angle of the same sine in
\* [-pi/2, pi/2]
DecSinSmall(y) == SinSeries(y, DecEval("*", y, y), 3)
DecSinTurn(y) ==
  DecSinSmall(IF DecLess(DecHalfPi, y) /\ DecLess(y, DecEval("+", DecPi, DecHalfPi))
                THEN DecEval("-", DecPi, y)
              ELSE IF DecLess(DecHalfPi, y) THEN DecEval("-", y, DecTwoPi)
              ELSE y)

\* the terms of the arctangent series of t from the one of degree k on: pow is
\* t^k with its sign in the series, tsq is t * t
RECURSIVE AtanSeries(_, _, _)
AtanSeries(pow, tsq, k) ==
  IF k > 15 \/ pow = NaN \/ pow = DecBase THEN DecBase
  ELSE DecEval("+", DecEval("/", pow, k), AtanSeries(DecNeg(DecEval("*", pow, tsq)), tsq, k + 2))

\* tan(a / 2^n) from t = tan(a), |a| < pi / 2
RECURSIVE DecHalfTan(_, _)
DecHalfTan(t, n) ==
  IF n = 0 THEN t
  ELSE DecHalfTan(DecEval("/", t,
                          DecEval("+", 1, DecEval("sqrt", DecEval("+", 1, DecEval("*", t, t)), 1))),
                  n - 1)

\* the arctangent of t, |t| <= 1: four times that of the twice halved angle
DecAtanSmall(t) == AtanSeries(t, DecEval("*", t, t), 1)
DecAtan(t) == DecEval("*", 4, DecAtanSmall(DecHalfTan(t, 2)))

\* arctan2(y, x) from a, the arctangent of y / x where |y| <= |x| and of
\* x / y elsewhere
DecQuadrant(y, x, a) ==
  IF ~DecLess(DecAbs(x), DecAbs(y))
    THEN DecEval("+", a, IF DecSign(x) = 0 THEN DecBase
                         ELSE IF DecSign(y) = 0 THEN DecPi ELSE DecNeg(DecPi))
  ELSE DecEval("-", IF DecSign(y) = 0 THEN DecHalfPi ELSE DecNeg(DecHalfPi), a)

DecArctan2(y, x) ==
  IF x = DecBase /\ y = DecBase THEN DecBase
  ELSE DecQuadrant(y, x, DecAtan(IF ~DecLess(DecAbs(x), DecAbs(y)) THEN DecEval("/", y, x)
                                   ELSE DecEval("/", x, y)))

\* arcsin(x) = arctan2(x, sqrt(1 - x * x))
DecArcsin(x) ==
  IF DecLess(DecUnit, DecAbs(x)) THEN NaN
  ELSE DecEval("arctan2", x, DecEval("sqrt", DecEval("-", 1, DecEval("*", x, x)), 1))

\* the operation on x and y with c in the place of the first of them that is a
\* grid value
DecConverted(op, x, y, c) ==
  DecEval(op, IF IsDec(x) THEN x ELSE c, IF IsDec(x) THEN c ELSE y)

DecEval(op, x, y) ==
  IF x = NaN \/ y = NaN THEN NaN
  ELSE IF ~IsDec(x) \/ ~IsDec(y) THEN DecConverted(op, x, y, Dec(IF IsDec(x) THEN y ELSE x, 0))
  ELSE CASE op = "+" -> DecAdd(x, y)
         [] op = "-" -> DecEval("+", x, DecNeg(y))
         [] op \in {"*", "/"} ->
              IF op = "/" /\ y = DecBase THEN NaN ELSE DecProduct(x, y, op = "/")
         [] op = "arctan2" -> DecArctan2(x, y)
         [] op = "sin" -> DecSinTurn(DecMod2Pi(x))
         [] op = "cos" -> DecEval("sin", DecEval("+", x, DecHalfPi), 1)
         [] op = "arcsin" -> DecArcsin(x)
         [] op = "deg2rad" -> DecEval("/", DecEval("*", x, DecPi), 180)
         [] op = "rad2deg" -> DecEval("/", DecEval("*", x, 180), DecPi)
         [] op = "sqrt" -> DecSqrt(x)
         [] op = "mod2pi" -> DecMod2Pi(x)

\* x + y, x - y, x * y, x / y and arctan2(x, y) of floats; a grid value met by
\* a decimal float is taken as one
Arith(op, x, y) ==
  IF x = NaN \/ y = NaN THEN NaN
  ELSE IF x >= DecBase \/ y >= DecBase THEN DecEval(op, x, y)
  ELSE CASE op = "+" -> Add(x, y)
         [] op = "-" -> Add(x, -y)
         [] op = "*" -> Mul(x, y)
         [] op = "/" -> IF IsInf(x) /\ IsInf(y) THEN NaN
                        ELSE IF IsInf(x) THEN (IF (x < 0) = (y < 0) THEN Inf ELSE -Inf)
                        ELSE IF IsInf(y) THEN 0
                        ELSE Div(x, y)
         [] op = "arctan2" -> IF IsInf(x) \/ IsInf(y)
                                THEN Arctan2(IF IsInf(x) THEN x \div Inf ELSE 0,
                                             IF IsInf(y) THEN y \div Inf ELSE 0)
                                ELSE Arctan2(x, y)

\* one-argument functions of floats, by name
Apply(fn, x) ==
  IF x = NaN THEN NaN
  ELSE IF x >= DecBase THEN DecEval(fn, x, x)
  ELSE CASE fn = "cos" -> Cos(x)
         [] fn = "sin" -> Sin(x)
         [] fn = "arcsin" -> Arcsin(x)
         [] fn = "deg2rad" -> IF IsInf(x) THEN x ELSE deg2rad(x)
         [] fn = "rad2deg" -> IF IsInf(x) THEN x ELSE rad2deg(x)
         [] fn = "sqrt" -> IF IsInf(x) THEN (IF x > 0 THEN x ELSE NaN) ELSE Sqrt(x)
         [] fn = "mod2pi" -> IF IsInf(x) THEN NaN ELSE x % TwoPi

\* a scalar, a flat list or an array as an array of at most one dimension:
\* np.asarray of a scalar has no dimension and one element
asarray1(x) ==
  IF IsRaise(x) THEN x
  ELSE IF x.t = "float" THEN NdArray("ndarray", <<>>, <<x.v>>)
  ELSE IF x.t = "list" THEN NdArray("ndarray", <<Len(x.items)>>, x.items)
  ELSE NdArray("ndarray", x.shape, x.data)

\* the shorter of the two lengths in place of the broadcast shape
broadcast_shortest(a, b) ==
  IF a.shape = <<>> THEN b.shape
  ELSE IF b.shape = <<>> THEN a.shape
  ELSE IF a.shape[1] <= b.shape[1] THEN a.shape ELSE b.shape

\* equal lengths only: a length of 1 is not stretched
broadcast_equal_only(a, b) ==
  IF a.shape = <<>> THEN b.shape
  ELSE IF b.shape = <<>> THEN a.shape
  ELSE IF a.shape[1] = b.shape[1] THEN a.shape
  ELSE <<-1>>

\* the shape two arrays of at most one dimension broadcast to; <<-1>> when
\* they do not: the lengths must be equal, or one of them 1
Broadcast1(a, b) ==
  IF a.shape = <<>> THEN b.shape
  ELSE IF b.shape = <<>> THEN a.shape
  ELSE IF a.shape[1] = b.shape[1] THEN a.shape
  ELSE IF a.shape[1] = 1 THEN b.shape
  ELSE IF b.shape[1] = 1 THEN a.shape
  ELSE <<-1>>

\* element k (from 1) of an array after broadcasting
Elem(a, k) == IF Len(a.data) = 1 THEN a.data[1] ELSE a.data[k]

\* an elementwise function of an array (or scalar)
ufunc1(fn, x) ==
  IF IsRaise(x) THEN x
  ELSE NdArray("ndarray", asarray1(x).shape,
               [k \in 1..Len(asarray1(x).data) |-> Apply(fn, asarray1(x).data[k])])

\* op of the elements of two arrays broadcast to shape
map2(op, a, b, shape) ==
  IF shape = <<-1>> THEN Raise("ValueError")
  ELSE NdArray("ndarray", shape,
               [k \in 1..ShapeSize(shape) |-> Arith(op, Elem(a, k), Elem(b, k))])

\* an elementwise operation of two arrays (or scalars) with broadcasting
ufunc2(op, x, y) ==
  IF IsRaise(x) THEN x
  ELSE IF IsRaise(y) THEN y
  ELSE map2(op, asarray1(x), asarray1(y), Broadcast1(asarray1(x), asarray1(y)))

\* --------------------------------------------------------------- Vector2D
\* Vector2D.Units, Coordinate.Units
Units == {"RADIANS", "DEGREES"}

\* np.array([xs, ys]).T for two results of the same shape: two scalars give
\* the pair (2,), two sequences of length n the n x 2 array of their pairs
stack_T(xs, ys) ==
  IF IsRaise(xs) THEN xs
  ELSE IF IsRaise(ys) THEN ys
  ELSE IF xs.shape # ys.shape THEN Raise("ValueError")
  ELSE IF xs.shape = <<>> THEN NdArray("ndarray", <<2>>, xs.data \o ys.data)
  ELSE NdArray("ndarray", <<xs.shape[1], 2>>,
               [k \in 1..(2 * xs.shape[1]) |->
                  IF k % 2 = 1 THEN xs.data[(k + 1) \div 2] ELSE ys.data[k \div 2]])

\* Array2D.__new__ on what a subclass constructor built
new_from(cls, input_array) == IF IsRaise(input_array) THEN input_array ELSE new(cls, input_array)

\* if units is Units.DEGREES: angle = np.deg2rad(angle)
to_radians(angle, units) == IF units = "DEGREES" THEN ufunc1("deg2rad", angle) ELSE angle

\* the rows with the sine and the cosine exchanged
polar_rows_sin_cos(magnitude, direction_) ==
  stack_T(ufunc2("*", magnitude, ufunc1("sin", direction_)),
          ufunc2("*", magnitude, ufunc1("cos", direction_)))

\* np.array([np.asarray(magnitude) * np.cos(direction),
\*           np.asarray(magnitude) * np.sin(direction)]).T
polar_rows(magnitude, direction_) ==
  stack_T(ufunc2("*", magnitude, ufunc1("cos", direction_)),
          ufunc2("*", magnitude, ufunc1("sin", direction_)))

\* Vector2D.__new__
vector_new(cls, magnitude, direction_, direction_units) ==
  new_from(cls, polar_rows(magnitude, to_radians(direction_, direction_units)))

\* Vector2D._direction, Vector2D.direction
direction(self_) ==
  ufunc1("mod2pi", ufunc2("arctan2", column(view(self_, "ndarray"), 1), column(view(self_, "ndarray"), 0)))

\* Vector2D.rotated
rotated(self_, rotation_angle, rotation_units) ==
  vector_new("Vector2D", norm(self_),
             ufunc2("+", direction(self_), to_radians(rotation_angle, rotation_units)), "RADIANS")

\* the rows of the K x 2 array u times the entries of pm, broadcast to rows rows
scaled_rows(pm, u, rows) ==
  NdArray("ndarray", <<rows, 2>>,
          [k \in 1..(2 * rows) |->
             Arith("*", Elem(pm, (k + 1) \div 2),
                   Row(u, IF len(u) = 1 THEN 0 ELSE (k - 1) \div 2)[((k - 1) % 2) + 1])])

\* pm.reshape(-1, 1) * u for a 1-D array pm and a K x 2 array u, with
\* broadcasting along both axes
mul_rows(pm, u) ==
  IF IsRaise(pm) THEN pm
  ELSE IF Broadcast1(pm, NdArray("ndarray", <<len(u)>>, <<>>)) = <<-1>> THEN Raise("ValueError")
  ELSE scaled_rows(pm, u, Broadcast1(pm, NdArray("ndarray", <<len(u)>>, <<>>))[1])

\* Vector2D._project_onto
project_onto_jit(v, onto_unit) ==
  mul_rows(ufunc2("+", ufunc2("*", column(v, 0), column(onto_unit, 0)),
                       ufunc2("*", column(v, 1), column(onto_unit, 1))),
           onto_unit)

\* Vector2D.project_onto
project_onto(self_, onto) ==
  view(project_onto_jit(view(self_, "ndarray"), view(normalized(onto), "ndarray")), "Vector2D")

\* the difference wrapped into (-pi, pi]: -pi becomes pi
angle_diff_half_open(raw_diff) ==
  LET diff == Abs(raw_diff) % TwoPi
      wrapped == IF diff > Pi THEN TwoPi - diff ELSE diff
      mask == \/ (raw_diff > -Pi /\ raw_diff <= 0)
              \/ (raw_diff > Pi /\ raw_diff <= TwoPi)
  IN  IF raw_diff = NaN THEN NaN ELSE IF mask THEN -wrapped ELSE wrapped

\* the wrapped difference without its sign
angle_diff_unsigned(raw_diff) ==
  LET diff == Abs(raw_diff) % TwoPi
  IN  IF raw_diff = NaN THEN NaN ELSE IF diff > Pi THEN TwoPi - diff ELSE diff

\* the absolute difference with the sign of the raw one, without the wrap at pi
angle_diff_no_wrap(raw_diff) ==
  LET diff == Abs(raw_diff) % TwoPi
  IN  IF raw_diff = NaN THEN NaN ELSE IF raw_diff <= 0 THEN -diff ELSE diff

\* Vector2D._calc_angle_diff for one pair of directions: diff, the entries
\* above pi replaced, the entries under mask negated
angle_diff(raw_diff) ==
  LET diff == Abs(raw_diff) % TwoPi
      wrapped == IF diff > Pi THEN TwoPi - diff ELSE diff
      mask == \/ (raw_diff >= -Pi /\ raw_diff <= 0)
              \/ (raw_diff >= Pi /\ raw_diff <= TwoPi)
  IN  IF raw_diff = NaN THEN NaN ELSE IF mask THEN -wrapped ELSE wrapped

\* Vector2D._calc_angle_diff on the array of raw differences
angle_diffs(raw_diff) ==
  IF IsRaise(raw_diff) THEN raw_diff
  ELSE NdArray("ndarray", raw_diff.shape,
               [k \in 1..Len(raw_diff.data) |-> angle_diff(raw_diff.data[k])])

\* Vector2D._calc_angle_diff
calc_angle_diff(direction_from, direction_to) == angle_diffs(ufunc2("-", direction_to, direction_from))

\* Vector2D.angle_to
angle_to(self_, v_towards) == calc_angle_diff(direction(self_), direction(v_towards))

\* ------------------------------------------------------------- Coordinate
\* vectorized2d.utils.units.NM_TO_METERS: a nautical mile in metres
NM_TO_METERS == 1852

\* earth_radius in Coordinate._shifted
earth_radius == 6378100

\* return a, b: the tuple of two results, or what raised while one of them
\* was computed
Pair(a, b) ==
  IF IsRaise(a) THEN a ELSE IF IsRaise(b) THEN b ELSE [t |-> "tuple", items |-> <<a, b>>]

\* item i (from 1) of a returned tuple, or what raised in its place
item(pair, i) == IF IsRaise(pair) THEN pair ELSE pair.items[i]

\* Coordinate.__new__: np.array([lat, lon]) needs lat and lon of one shape
coordinate_new(cls, lat_, lon_, units) ==
  new_from(cls, to_radians(stack_T(asarray1(lat_), asarray1(lon_)), units))

\* Coordinate.lat, Coordinate.lon
lat(self_) == x1(self_)
lon(self_) == x2(self_)

\* Coordinate._delta_east_and_north_jit: d_east * NM_TO_METERS and
\* d_north * NM_TO_METERS, with
\*   d_east  = np.rad2deg(other_lon - self_lon) * 60 * np.cos((self_lat + other_lat) / 2)
\*   d_north = np.rad2deg(other_lat - self_lat) * 60
delta_east_and_north_jit(self_lat, self_lon, other_lat, other_lon) ==
  Pair(ufunc2("*",
              ufunc2("*", ufunc2("*", ufunc1("rad2deg", ufunc2("-", other_lon, self_lon)), Float(60)),
                     ufunc1("cos", ufunc2("/", ufunc2("+", self_lat, other_lat), Float(2)))),
              Float(NM_TO_METERS)),
       ufunc2("*", ufunc2("*", ufunc1("rad2deg", ufunc2("-", other_lat, self_lat)), Float(60)),
              Float(NM_TO_METERS)))

\* the deltas with the latitude and the longitude of other exchanged
delta_east_and_north_exchanged(self_, other) ==
  delta_east_and_north_jit(lat(self_), lon(self_), lon(other), lat(other))

\* Coordinate._delta_east_and_north
delta_east_and_north(self_, other) ==
  delta_east_and_north_jit(lat(self_), lon(self_), lat(other), lon(other))

\* Coordinate._dist_squared
dist_squared_jit(d_east, d_north) ==
  ufunc2("+", ufunc2("*", d_east, d_east), ufunc2("*", d_north, d_north))

\* the distance taken from the first argument alone
dist_jit_first_only(d_east, d_north) == ufunc1("sqrt", ufunc2("*", d_east, d_east))

\* Coordinate._dist
dist_jit(d_east, d_north) == ufunc1("sqrt", dist_squared_jit(d_east, d_north))

\* Coordinate._bearing
bearing_jit(d_east, d_north) == ufunc1("mod2pi", ufunc2("arctan2", d_east, d_north))

\* Coordinate.geo_dist: d_east, d_north = self._delta_east_and_north(other),
\* then self._dist(d_north, d_east)
geo_dist(self_, other) ==
  dist_jit(item(delta_east_and_north(self_, other), 2), item(delta_east_and_north(self_, other), 1))

\* Coordinate.geo_dist_squared: d_north * d_north + d_east * d_east
geo_dist_squared(self_, other) ==
  ufunc2("+",
         ufunc2("*", item(delta_east_and_north(self_, other), 2),
                item(delta_east_and_north(self_, other), 2)),
         ufunc2("*", item(delta_east_and_north(self_, other), 1),
                item(delta_east_and_north(self_, other), 1)))

\* Coordinate.bearing
bearing(self_, other) ==
  bearing_jit(item(delta_east_and_north(self_, other), 1), item(delta_east_and_north(self_, other), 2))

\* Coordinate.geo_dist_and_bearing
geo_dist_and_bearing(self_, other) ==
  Pair(dist_jit(item(delta_east_and_north(self_, other), 1),
                item(delta_east_and_north(self_, other), 2)),
       bearing_jit(item(delta_east_and_north(self_, other), 1),
                   item(delta_east_and_north(self_, other), 2)))

\* sin_shifted_lat = sin_lat * cos_angular_dist + cos_lat * sin_angular_dist * np.cos(bearing)
sin_shifted_lat(self_lat, angular_dist, bearing_) ==
  ufunc2("+", ufunc2("*", ufunc1("sin", self_lat), ufunc1("cos", angular_dist)),
         ufunc2("*", ufunc2("*", ufunc1("cos", self_lat), ufunc1("sin", angular_dist)),
                ufunc1("cos", bearing_)))

\* the shifted longitude without the cosine of the latitude in the eastward
\* component
shifted_lon_no_cos_lat(self_lat, self_lon, angular_dist, bearing_) ==
  ufunc2("+", self_lon,
         ufunc2("arctan2",
                ufunc2("*", ufunc1("sin", bearing_), ufunc1("sin", angular_dist)),
                ufunc2("-", ufunc1("cos", angular_dist),
                       ufunc2("*", ufunc1("sin", self_lat),
                              sin_shifted_lat(self_lat, angular_dist, bearing_)))))

\* shifted_lon = self_lon + np.arctan2(np.sin(bearing) * sin_angular_dist * cos_lat,
\*                                     cos_angular_dist - sin_lat * sin_shifted_lat)
shifted_lon(self_lat, self_lon, angular_dist, bearing_) ==
  ufunc2("+", self_lon,
         ufunc2("arctan2",
                ufunc2("*", ufunc2("*", ufunc1("sin", bearing_), ufunc1("sin", angular_dist)),
                       ufunc1("cos", self_lat)),
                ufunc2("-", ufunc1("cos", angular_dist),
                       ufunc2("*", ufunc1("sin", self_lat),
                              sin_shifted_lat(self_lat, angular_dist, bearing_)))))

\* Coordinate._shifted, with angular_dist = geo_dist / earth_radius
shifted_jit(self_lat, self_lon, geo_dist_, bearing_) ==
  Pair(ufunc1("arcsin",
              sin_shifted_lat(self_lat, ufunc2("/", geo_dist_, Float(earth_radius)), bearing_)),
       shifted_lon(self_lat, self_lon, ufunc2("/", geo_dist_, Float(earth_radius)), bearing_))

\* Coordinate.shifted
shifted(self_, geo_dist_, bearing_) ==
  coordinate_new("Coordinate",
                 item(shifted_jit(lat(self_), lon(self_), geo_dist_, bearing_), 1),
                 item(shifted_jit(lat(self_), lon(self_), geo_dist_, bearing_), 2), "RADIANS")

\* np.arange(start, stop, step) for start < stop and a step > 0: the
\* ceil((stop - start) / step) values from start on, step apart
arange(start, stop, step) ==
  NdArray("ndarray", <<((stop - start) + step - 1) \div step>>,
          [k \in 1..(((stop - start) + step - 1) \div step) |-> start + (k - 1) * step])

\* the circle without the assertion on the row count
circle_around_any_rows(self_, radius, number_of_points) ==
  IF number_of_points = 0 THEN Raise("ZeroDivisionError")
  ELSE shifted(self_, Float(radius), arange(0, TwoPi, Div(TwoPi, number_of_points)))

\* Coordinate.circle_around: (math.pi * 2) / number_of_points is Python's
\* division, which raises for 0
circle_around(self_, radius, number_of_points) ==
  IF self_.shape[1] # 1 THEN Raise("AssertionError")
  ELSE IF number_of_points = 0 THEN Raise("ZeroDivisionError")
  ELSE shifted(self_, Float(radius), arange(0, TwoPi, Div(TwoPi, number_of_points)))

\* the sample angles of a closed curve: number_of_points multiples of
\* 2 * pi / number_of_points, from 0
sample_angles(number_of_points) ==
  NdArray("ndarray", <<number_of_points>>,
          [k \in 1..number_of_points |-> (k - 1) * Div(TwoPi, number_of_points)])

\* c * c + s * s
sum_of_squares(c, s) == Arith("+", Arith("*", c, c), Arith("*", s, s))

\* the radius of the ellipse at the angle phi from its major axis:
\* major / sqrt(cos(phi)^2 + ((major / minor) * sin(phi))^2)
ellipse_radius(major_radius, minor_radius, phi) ==
  Arith("/", major_radius,
        Apply("sqrt", sum_of_squares(Apply("cos", phi),
                                     Arith("*", Arith("/", major_radius, minor_radius),
                                           Apply("sin", phi)))))

\* the radii of the ellipse at the sample angles theta
ellipse_radii(major_radius, minor_radius, major_axis_bearing, theta) ==
  NdArray("ndarray", theta.shape,
          [k \in 1..Len(theta.data) |->
             ellipse_radius(major_radius, minor_radius,
                            Arith("-", theta.data[k], major_axis_bearing))])

\* the ellipse sampled without the test of the row count
ellipse_around_any_rows(self_, major_radius, minor_radius, major_axis_bearing, number_of_points) ==
  shifted(self_,
          ellipse_radii(major_radius, minor_radius, major_axis_bearing,
                        sample_angles(number_of_points)),
          sample_angles(number_of_points))

\* Coordinate.ellipse_around: the single-row precondition of circle_around,
\* then each sample angle's radius relative to the major axis and Shifted with
\* that radius and the sample angle as the bearing
ellipse_around(self_, major_radius, minor_radius, major_axis_bearing, number_of_points) ==
  IF self_.shape[1] # 1 THEN Raise("AssertionError")
  ELSE ellipse_around_any_rows(self_, major_radius, minor_radius, major_axis_bearing, number_of_points)

\* ------------------------------------------------------------------ inputs
ListInput(ndim, items) == [t |-> "list", ndim |-> ndim, items |-> items]

FlatLists == UNION {[1..n -> Vals] : n \in 0..MaxLen}

NestedShapes == {rc \in (1..MaxLen) \X (0..MaxLen) : rc[1] * rc[2] <= MaxLen /\ rc[1] + rc[2] <= MaxLen}

NestedLists == UNION {[1..rc[1] -> [1..rc[2] -> Vals]] : rc \in NestedShapes}

FlatInputs == {ListInput(1, s) : s \in FlatLists}
NestedInputs == {ListInput(2, s) : s \in NestedLists}

\* the arrays a caller can hand over as an operand: what the constructions that
\* succeed give, kept to MaxRows rows
Operands ==
  {a \in UNION {{new(cls, in) : in \in FlatInputs} \cup {new(cls, in) : in \in NestedInputs} :
                  cls \in Classes} :
     IsArray(a) /\ len(a) <= MaxRows}

\* ------------------------------------------------------------------- state
VARIABLES
  self,   \* the receiver: the array the caller holds, None before the first one
  ret     \* the call that just returned: its name, its arguments and what it
          \* returned or raised; Idle between two calls

vars == <<self, ret>>

\* other is the second operand, or the class a constructor or a classmethod is
\* called on
Call(op, arg, other, out) == [op |-> op, arg |-> arg, other |-> other, out |-> out]

\* the arrays the model lets the caller go on with: of a domain class, N x 2,
\* at most MaxRows rows, components in Vals
Kept(a) ==
  /\ IsArray(a)
  /\ a.t \in Classes
  /\ Len(a.shape) = 2
  /\ len(a) <= MaxRows
  /\ \A k \in 1..Len(a.data) : a.data[k] \in Vals

\* no call is in progress: the caller is between two calls
Idle == Call("idle", None, None, None)

Init ==
  /\ self = None
  /\ ret = Idle

\* self = cls(input_array): the caller holds the new array, or nothing when the
\* construction raised
CallNew(cls, in) ==
  /\ ret = Idle
  /\ ret' = Call("__new__", in, [t |-> cls], new(cls, in))
  /\ self' = IF Kept(new(cls, in)) THEN new(cls, in) ELSE None

Construct ==
  \E cls \in Classes :
    \/ \E in \in FlatInputs : CallNew(cls, in)
    \/ \E in \in NestedInputs : CallNew(cls, in)
    \/ \E in \in Operands : CallNew(cls, in)

\* the arguments the calls are tried with
PyInt(n) == [t |-> "int", v |-> n]
Slice(start, stop) == [t |-> "slice", start |-> start, stop |-> stop]
IntSeq(s) == [t |-> "seq", items |-> s]

Indices == {PyInt(i) : i \in (-(MaxRows + 1))..MaxRows}
Slices == {Slice(lo, hi) : lo \in (-MaxRows)..MaxRows, hi \in (-MaxRows)..(MaxRows + 1)}
ScalarRepeats == {PyInt(c) : c \in (-1)..MaxRep}
SeqRepeats == {IntSeq(c) : c \in UNION {[1..n -> 0..MaxRep] : n \in 1..MaxRows}}
Axes == {None, PyInt(0), PyInt(1), PyInt(2)}

\* cls.concat(arrays), the arrays being the first n of (self, other, self)
CallConcat ==
  /\ ret = Idle
  /\ self # None
  /\ \E cls \in Classes : \E o \in Operands : \E n \in 0..3 :
       LET arrays == SubSeq(<<self, o, self>>, 1, n)
       IN  ret' = Call("concat", List(arrays), [t |-> cls], concat(cls, arrays))
  /\ UNCHANGED self

\* self.repeat(repeats)
CallRepeat ==
  /\ ret = Idle
  /\ self # None
  /\ \/ \E r \in ScalarRepeats : ret' = Call("repeat", r, None, repeat(self, r))
     \/ \E r \in SeqRepeats : ret' = Call("repeat", r, None, repeat(self, r))
  /\ UNCHANGED self

\* self == other, self != other
CallEq ==
  /\ ret = Idle
  /\ self # None
  /\ \E o \in Operands :
       \/ ret' = Call("__eq__", None, o, eq(self, o))
       \/ ret' = Call("__ne__", None, o, ne(self, o))
  /\ UNCHANGED self

\* self[item]
CallGetItem ==
  /\ ret = Idle
  /\ self # None
  /\ \/ \E i \in Indices : ret' = Call("__getitem__", i, None, getitem(self, i))
     \/ \E i \in Slices : ret' = Call("__getitem__", i, None, getitem(self, i))
  /\ UNCHANGED self

\* self.x1, self.x2
CallX ==
  /\ ret = Idle
  /\ self # None
  /\ \/ ret' = Call("x1", None, None, x1(self))
     \/ ret' = Call("x2", None, None, x2(self))
  /\ UNCHANGED self

\* self.split()
CallSplit ==
  /\ ret = Idle
  /\ self # None
  /\ ret' = Call("split", None, None, split(self))
  /\ UNCHANGED self

\* self.norm, self.norm_squared
CallNorm ==
  /\ ret = Idle
  /\ self # None
  /\ \/ ret' = Call("norm", None, None, norm(self))
     \/ ret' = Call("norm_squared", None, None, norm_squared(self))
  /\ UNCHANGED self

\* self.normalized()
CallNormalized ==
  /\ ret = Idle
  /\ self # None
  /\ ret' = Call("normalized", None, None, normalized(self))
  /\ UNCHANGED self

\* self.min(axis), ..., self.var(axis)
CallReduce ==
  /\ ret = Idle
  /\ self # None
  /\ \E fn \in Reductions : \E axis \in Axes :
       ret' = Call(fn, axis, None, reduction(fn, self, axis))
  /\ UNCHANGED self

\* self.euclid_dist(other, pairing=pairing), self.euclid_dist_squared(...)
CallEuclidDist ==
  /\ ret = Idle
  /\ self # None
  /\ self.t = "Point2D"
  /\ \E o \in Operands : \E pairing \in Pairings :
       /\ o.t = "Point2D"
       /\ \/ ret' = Call("euclid_dist", [t |-> pairing], o, euclid_dist(self, o, pairing))
          \/ ret' = Call("euclid_dist_squared", [t |-> pairing], o,
                         euclid_dist_squared(self, o, pairing))
  /\ UNCHANGED self

\* the caller goes on with one element of the list the last call returned
AdoptItem ==
  /\ ret.out.t = "list"
  /\ \E k \in 1..Len(ret.out.items) :
       /\ Kept(ret.out.items[k])
       /\ self' = ret.out.items[k]
  /\ ret' = Idle

\* the caller goes on with the array the last call returned
Adopt ==
  /\ Kept(ret.out)
  /\ self' = ret.out
  /\ ret' = Idle

\* the caller drops what the last call returned or raised and keeps its receiver
Return ==
  /\ ret # Idle
  /\ ret' = Idle
  /\ UNCHANGED self

Next ==
  \/ Construct
  \/ CallConcat
  \/ CallRepeat
  \/ CallEq
  \/ CallGetItem
  \/ CallX
  \/ CallSplit
  \/ CallNorm
  \/ CallNormalized
  \/ CallReduce
  \/ CallEuclidDist
  \/ Adopt
  \/ AdoptItem
  \/ Return

Spec == Init /\ [][Next]_vars



\* ------------------------------------------ Vector2D and Coordinate calls
\* the directions and rotation angles [radians] and the magnitudes inputs are
\* built from
Angles == {0, 3, 4}
Magnitudes == {0, 3}
\* the latitudes and longitudes [radians]
LatLons == {0, 1}
\* the radii of circles [meters]: none and one radian of arc
Radii == {0, earth_radius}
\* the major and minor radii of ellipses [meters]
EllipseRadii == {<<2 * earth_radius, earth_radius>>, <<earth_radius, earth_radius>>}
\* the bearings of a shift and of an ellipse's major axis [radians]
Bearings == {0, 2}

\* a scalar, or a sequence of at most MaxRows elements, of the values in S
ScalarOrSeq(S) ==
  {Float(v) : v \in S} \cup {List(s) : s \in UNION {[1..n -> S] : n \in 0..MaxRows}}

\* the magnitudes, and the directions and the latitudes or longitudes in the
\* units they are handed over in
MagnitudeInputs == ScalarOrSeq(Magnitudes)
DirectionInputs(units) ==
  ScalarOrSeq({IF units = "DEGREES" THEN rad2deg(a) ELSE a : a \in Angles})
LatLonInputs(units) ==
  ScalarOrSeq({IF units = "DEGREES" THEN rad2deg(a) ELSE a : a \in LatLons})

\* the arrays of S and, so that an operand has more rows than any receiver,
\* a.repeat(MaxRows + 1) of its 1-row arrays a
WithTall(S) == S \cup {repeat(a, PyInt(MaxRows + 1)) : a \in {b \in S : len(b) = 1}}

\* the vectors and coordinates a caller can hand over as an operand: what the
\* constructions that succeed give, and the tall ones
VectorOperands ==
  WithTall({v \in {vector_new("Vector2D", m, d, "RADIANS") :
                     m \in MagnitudeInputs, d \in DirectionInputs("RADIANS")} : IsArray(v)})

CoordinateOperands ==
  WithTall({c \in {coordinate_new("Coordinate", la, lo, "RADIANS") :
                     la \in LatLonInputs("RADIANS"), lo \in LatLonInputs("RADIANS")} : IsArray(c)})

\* the arrays the model lets the caller go on with: the kept ones, the vectors
\* with rows built from Magnitudes and Angles and the coordinates with
\* components in LatLons, of at most MaxRows rows
Held(a) ==
  \/ Kept(a)
  \/ /\ a.t \in {"Vector2D", "Coordinate"}
     /\ Len(a.shape) = 2
     /\ len(a) <= MaxRows
     /\ \A i \in 0..(len(a) - 1) :
          IF a.t = "Vector2D"
            THEN Row(a, i) \in {<<m * Cos(d), m * Sin(d)>> : m \in Magnitudes, d \in Angles}
          ELSE Row(a, i)[1] \in LatLons /\ Row(a, i)[2] \in LatLons

\* the constructor call op returned out: the caller holds the new array, or
\* nothing when the construction raised
Constructed(op, arg, out) ==
  /\ ret' = Call(op, arg, [t |-> op], out)
  /\ self' = IF Held(out) THEN out ELSE None

\* self = Vector2D(magnitude=, direction=, direction_units=)
ConstructVector ==
  /\ ret = Idle
  /\ \E units \in Units : \E m \in MagnitudeInputs : \E d \in DirectionInputs(units) :
       Constructed("Vector2D", [magnitude |-> m, direction |-> d, direction_units |-> units],
                   vector_new("Vector2D", m, d, units))

\* self = Coordinate(lat=, lon=, units=)
ConstructCoordinate ==
  /\ ret = Idle
  /\ \E units \in Units : \E la \in LatLonInputs(units) : \E lo \in LatLonInputs(units) :
       Constructed("Coordinate", [lat |-> la, lon |-> lo, units |-> units],
                   coordinate_new("Coordinate", la, lo, units))

\* self.direction
CallDirection ==
  /\ ret = Idle
  /\ self.t = "Vector2D"
  /\ ret' = Call("direction", None, None, direction(self))
  /\ UNCHANGED self

\* self.rotated(rotation_angle, rotation_units)
CallRotated ==
  /\ ret = Idle
  /\ self.t = "Vector2D"
  /\ \E units \in Units : \E a \in DirectionInputs(units) :
       ret' = Call("rotated", [rotation_angle |-> a, rotation_units |-> units], None,
                   rotated(self, a, units))
  /\ UNCHANGED self

\* self.project_onto(onto)
CallProjectOnto ==
  /\ ret = Idle
  /\ self.t = "Vector2D"
  /\ \E o \in VectorOperands : ret' = Call("project_onto", None, o, project_onto(self, o))
  /\ UNCHANGED self

\* self.angle_to(v_towards)
CallAngleTo ==
  /\ ret = Idle
  /\ self.t = "Vector2D"
  /\ \E o \in VectorOperands : ret' = Call("angle_to", None, o, angle_to(self, o))
  /\ UNCHANGED self

\* self.geo_dist(other), self.geo_dist_squared(other)
CallGeoDist ==
  /\ ret = Idle
  /\ self.t = "Coordinate"
  /\ \E o \in CoordinateOperands :
       \/ ret' = Call("geo_dist", None, o, geo_dist(self, o))
       \/ ret' = Call("geo_dist_squared", None, o, geo_dist_squared(self, o))
  /\ UNCHANGED self

\* self.bearing(other), self.geo_dist_and_bearing(other)
CallBearing ==
  /\ ret = Idle
  /\ self.t = "Coordinate"
  /\ \E o \in CoordinateOperands :
       \/ ret' = Call("bearing", None, o, bearing(self, o))
       \/ ret' = Call("geo_dist_and_bearing", None, o, geo_dist_and_bearing(self, o))
  /\ UNCHANGED self

\* self.shifted(geo_dist, bearing)
CallShifted ==
  /\ ret = Idle
  /\ self.t = "Coordinate"
  /\ \E r \in Radii : \E b \in Bearings :
       ret' = Call("shifted", [geo_dist |-> Float(r), bearing |-> Float(b)], None,
                   shifted(self, Float(r), Float(b)))
  /\ UNCHANGED self

\* self.circle_around(radius, number_of_points)
CallCircleAround ==
  /\ ret = Idle
  /\ self.t = "Coordinate"
  /\ \E r \in Radii : \E n \in 0..MaxPoints :
       ret' = Call("circle_around", [radius |-> r, number_of_points |-> n], None,
                   circle_around(self, r, n))
  /\ UNCHANGED self

\* self.ellipse_around(major_radius, minor_radius, major_axis_bearing, number_of_points)
CallEllipseAround ==
  /\ ret = Idle
  /\ self.t = "Coordinate"
  /\ \E r \in EllipseRadii : \E b \in Bearings : \E n \in 1..MaxPoints :
       ret' = Call("ellipse_around",
                   [major_radius |-> r[1], minor_radius |-> r[2], major_axis_bearing |-> b,
                    number_of_points |-> n],
                   None, ellipse_around(self, r[1], r[2], b, n))
  /\ UNCHANGED self

\* the caller goes on with the vector or coordinate the last call returned
AdoptHeld ==
  /\ Held(ret.out)
  /\ self' = ret.out
  /\ ret' = Idle

NextGeometry ==
  \/ \E in \in Operands : CallNew("Point2D", in)
  \/ ConstructVector
  \/ ConstructCoordinate
  \/ CallEuclidDist
  \/ CallDirection
  \/ CallRotated
  \/ CallProjectOnto
  \/ CallAngleTo
  \/ CallGeoDist
  \/ CallBearing
  \/ CallShifted
  \/ CallCircleAround
  \/ CallEllipseAround
  \/ AdoptHeld
  \/ Return

\* the calls on points, vectors and coordinates
SpecGeometry == Init /\ [][NextGeometry]_vars

\* ------------------------------------------------------------------ claims
\* the arrays of a domain class the state holds: the receiver, what the call
\* returned and, for a returned list, its elements
DomainArrays ==
  (IF self.t \in Classes THEN {self} ELSE {})
    \cup (IF ret.out.t \in Classes THEN {ret.out} ELSE {})
    \cup (IF ret.out.t = "list"
            THEN {ret.out.items[k] : k \in {j \in 1..Len(ret.out.items) : ret.out.items[j].t \in Classes}}
            ELSE {})

\* the number of elements of a constructor input, and its k-th element (from 0)
\* in flattened order: element (r, c) of a nested list with C columns is the
\* (r * C + c)-th
InputCount(in) ==
  IF in.t \in ArrayTypes THEN len(in) * 2
  ELSE IF in.ndim = 1 THEN Len(in.items)
  ELSE IF in.items = <<>> THEN 0 ELSE Len(in.items) * Len(in.items[1])

InputElement(in, k) ==
  IF in.t \in ArrayTypes THEN Row(in, k \div 2)[(k % 2) + 1]
  ELSE IF in.ndim = 1 THEN in.items[k + 1]
  ELSE in.items[(k \div Len(in.items[1])) + 1][(k % Len(in.items[1])) + 1]

\* C1: constructing from an input with an even element count gives an array
\* of the class with (count / 2) rows and 2 columns, row i holding elements 2i
\* and 2i+1 of the flattened input; an odd element count raises the shape
\* error (ValueError) and gives no array.
C1_Construct ==
  ret.op = "__new__" =>
    IF InputCount(ret.arg) % 2 = 0
      THEN /\ ret.out.t = ret.other.t
           /\ ret.out.shape = <<InputCount(ret.arg) \div 2, 2>>
           /\ Len(ret.out.data) = InputCount(ret.arg)
           /\ \A i \in 0..((InputCount(ret.arg) \div 2) - 1) :
                Row(ret.out, i) = <<InputElement(ret.arg, 2 * i), InputElement(ret.arg, 2 * i + 1)>>
      ELSE ret.out = Raise("ValueError")

\* a nested 1 x 4 list became a 2-row array
C1_Witness ==
  /\ ret.op = "__new__"
  /\ ret.arg.t = "list"
  /\ ret.arg.ndim = 2
  /\ Len(ret.arg.items) = 1
  /\ IsArray(ret.out)
  /\ len(ret.out) = 2
  /\ Row(ret.out, 0) # Row(ret.out, 1)

CountOf(repeats, i) == IF repeats.t = "int" THEN repeats.v
                       ELSE IF Len(repeats.items) = 1 THEN repeats.items[1] ELSE repeats.items[i + 1]

RECURSIVE Offset(_, _)
Offset(arrays, k) == IF k <= 1 THEN 0 ELSE len(arrays[k - 1]) + Offset(arrays, k - 1)

\* the rows of a and b have the same components, in the same order
SameRows(a, b) == len(a) = len(b) /\ \A i \in 0..(len(a) - 1) : Row(a, i) = Row(b, i)

\* C3 as stated: Concat([a, b]) has len(a) + len(b) rows, and the library's
\* Equals holds between its first len(a) rows and a and between its other
\* rows and b.
C3_ConcatEquals ==
  (ret.op = "concat" /\ Len(ret.arg.items) = 2) =>
    LET a == ret.arg.items[1]
        b == ret.arg.items[2]
    IN  /\ len(ret.out) = len(a) + len(b)
        /\ eq(getitem(ret.out, Slice(0, len(a))), a).v
        /\ eq(getitem(ret.out, Slice(len(a), len(ret.out))), b).v

\* C3, amended: cls.concat(arrays) of one or more arrays is of class cls, has
\* the sum of the row counts and holds the rows of each input in argument
\* order; for [a, b] the first len(a) rows have the components of a and the
\* others those of b, and the library's Equals holds for each part exactly
\* when that input is of class cls (Equals is false between two classes).
C3_ConcatRows ==
  (ret.op = "concat" /\ Len(ret.arg.items) >= 1) =>
    LET arrays == ret.arg.items
    IN  /\ ret.out.t = ret.other.t
        /\ ret.out.shape = <<SeqSum([k \in 1..Len(arrays) |-> len(arrays[k])]), 2>>
        /\ \A k \in 1..Len(arrays) : \A i \in 0..(len(arrays[k]) - 1) :
             Row(ret.out, Offset(arrays, k) + i) = Row(arrays[k], i)
        /\ Len(arrays) = 2 =>
             LET a == arrays[1]
                 b == arrays[2]
                 head == getitem(ret.out, Slice(0, len(a)))
                 tail == getitem(ret.out, Slice(len(a), len(ret.out)))
             IN  /\ len(ret.out) = len(a) + len(b)
                 /\ SameRows(head, a)
                 /\ SameRows(tail, b)
                 /\ eq(head, a).v <=> a.t = ret.other.t
                 /\ eq(tail, b).v <=> b.t = ret.other.t

\* two arrays of the class, of 2 rows and 1 row and with different rows, were
\* concatenated
C3_Witness ==
  /\ ret.op = "concat"
  /\ Len(ret.arg.items) = 2
  /\ len(ret.arg.items[1]) = 2
  /\ len(ret.arg.items[2]) = 1
  /\ ret.arg.items[1].t = ret.other.t
  /\ ret.arg.items[2].t = ret.other.t
  /\ Row(ret.arg.items[1], 0) # Row(ret.arg.items[1], 1)
  /\ Row(ret.arg.items[1], 0) # Row(ret.arg.items[2], 0)
  /\ len(ret.out) = 3

\* the number of rows a repeat call puts before the copies of row i
RECURSIVE CountBefore(_, _)
CountBefore(repeats, i) == IF i = 0 THEN 0 ELSE CountOf(repeats, i - 1) + CountBefore(repeats, i - 1)

\* C4: repeat(counts), counts being a scalar >= 0 or one count >= 0 per row,
\* gives an array of the receiver's class with 2 columns and as many rows as
\* the counts sum to, the copies of row i at rows CountBefore(i) ..
\* CountBefore(i + 1) - 1, in the original row order.
C4_Repeat ==
  (/\ ret.op = "repeat"
   /\ ret.arg.t = "seq" => Len(ret.arg.items) = len(self)
   /\ ret.arg.t = "int" => ret.arg.v >= 0) =>
    /\ ret.out.t = self.t
    /\ ret.out.shape = <<CountBefore(ret.arg, len(self)), 2>>
    /\ Len(ret.out.data) = 2 * CountBefore(ret.arg, len(self))
    /\ \A i \in 0..(len(self) - 1) :
         \A p \in CountBefore(ret.arg, i)..(CountBefore(ret.arg, i + 1) - 1) :
           Row(ret.out, p) = Row(self, i)

\* two different rows were repeated a different number of times each
C4_Witness ==
  /\ ret.op = "repeat"
  /\ ret.arg.t = "seq"
  /\ len(self) = 2
  /\ Len(ret.arg.items) = 2
  /\ ret.arg.items[1] = 2
  /\ ret.arg.items[2] = 1
  /\ Row(self, 0) # Row(self, 1)
  /\ len(ret.out) = 3

\* C5 as stated: Equals is true if and only if the two arrays have the same
\* row count and every row's two components are equal, false otherwise, and
\* never raises; not-equals is the negation.
C5_EqualsIffSameRows ==
  /\ ret.op = "__eq__" => ret.out = Bool(SameRows(self, ret.other))
  /\ ret.op = "__ne__" => ret.out = Bool(~SameRows(self, ret.other))

\* C5, amended: Equals is true if and only if the two arrays are of the same
\* class, have the same row count and every row's two components are equal;
\* in every other case it is false, and it never raises; not-equals is the
\* negation.
C5_Equals ==
  /\ ret.op = "__eq__" => ret.out = Bool(self.t = ret.other.t /\ SameRows(self, ret.other))
  /\ ret.op = "__ne__" => ret.out = Bool(~(self.t = ret.other.t /\ SameRows(self, ret.other)))

\* two 2-row arrays of one class that differ only in the last component were
\* compared
C5_Witness ==
  /\ ret.op = "__eq__"
  /\ self.t = ret.other.t
  /\ len(self) = 2
  /\ len(ret.other) = 2
  /\ Row(self, 0) = Row(ret.other, 0)
  /\ Row(self, 1)[1] = Row(ret.other, 1)[1]
  /\ Row(self, 1)[2] # Row(ret.other, 1)[2]
  /\ ret.out = Bool(FALSE)

\* C6: indexing with a valid integer i, negative or not, gives an array of the
\* receiver's class with exactly 1 row and 2 columns, the row being row i of
\* the receiver (row len + i for a negative i); it is never a bare pair.
C6_IntegerIndex ==
  (/\ ret.op = "__getitem__"
   /\ ret.arg.t = "int"
   /\ -len(self) <= ret.arg.v
   /\ ret.arg.v < len(self)) =>
    /\ ret.out.t = self.t
    /\ ret.out.shape = <<1, 2>>
    /\ ret.out.data = Row(self, IF ret.arg.v < 0 THEN ret.arg.v + len(self) ELSE ret.arg.v)

\* a 2-row array with different rows was indexed with -1
C6_Witness ==
  /\ ret.op = "__getitem__"
  /\ ret.arg.t = "int"
  /\ ret.arg.v = -1
  /\ len(self) = 2
  /\ Row(self, 0) # Row(self, 1)
  /\ ret.out.shape = <<1, 2>>

\* the norm of a row
RowNorm(row) == Sqrt(row[1] * row[1] + row[2] * row[2])

\* C7: normalized() never raises and gives an array of the receiver's class
\* with the receiver's row count; a row whose norm is exactly zero comes back
\* unchanged, as the zero row; every other row is the row divided by its norm.
C7_Normalized ==
  ret.op = "normalized" =>
    /\ ret.out.t = self.t
    /\ ret.out.shape = <<len(self), 2>>
    /\ \A i \in 0..(len(self) - 1) :
         IF RowNorm(Row(self, i)) = 0
           THEN Row(ret.out, i) = Row(self, i) /\ Row(ret.out, i) = <<0, 0>>
           ELSE Row(ret.out, i) = <<Div(Row(self, i)[1], RowNorm(Row(self, i))),
                                    Div(Row(self, i)[2], RowNorm(Row(self, i)))>>

\* an array with a zero row and a row of norm 3 was normalized
C7_Witness ==
  /\ ret.op = "normalized"
  /\ len(self) = 2
  /\ Row(self, 0) = <<0, 0>>
  /\ RowNorm(Row(self, 1)) = 3
  /\ Row(ret.out, 1) # Row(self, 1)

\* C8: min, max, sum, prod, mean, std and var give what the same reduction of
\* the plain underlying array gives; without an axis that is the reduction of
\* all 2N components, a scalar; with or without an axis the result is never
\* of a domain class.
C8_Reductions ==
  ret.op \in Reductions =>
    /\ ret.out = ndarray_reduce(ret.op, NdArray("ndarray", self.shape, self.data), ret.arg)
    /\ ret.out.t \notin Classes
    /\ (ret.arg.t = "None" /\ ~IsRaise(ret.out)) =>
         ret.out = Float(ReduceSeq(ret.op,
                     [k \in 1..(2 * len(self)) |-> Row(self, (k - 1) \div 2)[((k - 1) % 2) + 1]]))
    /\ (ret.arg.t = "int" /\ ret.arg.v \in {0, 1} /\ ~IsRaise(ret.out)) =>
         ret.out.t = "ndarray" /\ Len(ret.out.shape) = 1

\* the sum of a 2-row array with components 0 and 3 in both columns was taken
\* without an axis
C8_Witness ==
  /\ ret.op = "sum"
  /\ ret.arg.t = "None"
  /\ len(self) = 2
  /\ Row(self, 0) = <<0, 3>>
  /\ Row(self, 1) = <<3, 3>>
  /\ ret.out = Float(9)

\* the distance and the squared distance between two rows
Dist(p, q) == Sqrt((p[1] - q[1]) * (p[1] - q[1]) + (p[2] - q[2]) * (p[2] - q[2]))
DistSquared(p, q) == (p[1] - q[1]) * (p[1] - q[1]) + (p[2] - q[2]) * (p[2] - q[2])

\* C9: with pairing ALL and row counts >= 1, euclid_dist and
\* euclid_dist_squared give a plain matrix of shape (len(self), len(other))
\* whose entry [i, j] is the (squared) distance between row i of self and row
\* j of other, also when one of the two has exactly 1 row.
C9_PairingAll ==
  (/\ ret.op \in {"euclid_dist", "euclid_dist_squared"}
   /\ ret.arg.t = "ALL"
   /\ len(self) >= 1
   /\ len(ret.other) >= 1) =>
    /\ ret.out.t = "ndarray"
    /\ ret.out.shape = <<len(self), len(ret.other)>>
    /\ Len(ret.out.data) = len(self) * len(ret.other)
    /\ \A i \in 0..(len(self) - 1) : \A j \in 0..(len(ret.other) - 1) :
         ret.out.data[i * len(ret.other) + j + 1] =
           IF ret.op = "euclid_dist" THEN Dist(Row(self, i), Row(ret.other, j))
           ELSE DistSquared(Row(self, i), Row(ret.other, j))

\* the 2 x 2 distance matrix of two 2-row arrays, not symmetric
C9_Witness ==
  /\ ret.op = "euclid_dist"
  /\ ret.arg.t = "ALL"
  /\ len(self) = 2
  /\ len(ret.other) = 2
  /\ ret.out.shape = <<2, 2>>
  /\ ret.out.data[2] # ret.out.data[3]

\* the 1 x 2 matrix of a 1-row array against a 2-row array
C9_WitnessOneRow ==
  /\ ret.op = "euclid_dist"
  /\ ret.arg.t = "ALL"
  /\ len(self) = 1
  /\ len(ret.other) = 2
  /\ ret.out.shape = <<1, 2>>

\* the row of a that is paired with row k of the result: its only row when it
\* has one row
Paired(a, k) == Row(a, IF len(a) = 1 THEN 0 ELSE k)

Larger(n, m) == IF n >= m THEN n ELSE m

\* C10 as stated: with pairing ALIGNED and equal row counts, or one operand of
\* exactly 1 row, the result is a flat sequence of length max(len(self),
\* len(other)) whose element k is the (squared) distance between the paired
\* rows k.
C10_AlignedLengthMax ==
  (/\ ret.op \in {"euclid_dist", "euclid_dist_squared"}
   /\ ret.arg.t = "ALIGNED"
   /\ (len(self) = len(ret.other) \/ len(self) = 1 \/ len(ret.other) = 1)) =>
    /\ ret.out.t = "ndarray"
    /\ ret.out.shape = <<Larger(len(self), len(ret.other))>>

\* C10, amended: with pairing ALIGNED and equal row counts, or one operand of
\* exactly 1 row, the result is a flat plain sequence; its length is
\* max(len(self), len(other)) when neither operand is empty and 0 when one
\* is; element k is the (squared) distance between row k of self and row k of
\* other, a 1-row operand being used for every k; the distance of an array to
\* itself is all zeros.
C10_PairingAligned ==
  (/\ ret.op \in {"euclid_dist", "euclid_dist_squared"}
   /\ ret.arg.t = "ALIGNED"
   /\ (len(self) = len(ret.other) \/ len(self) = 1 \/ len(ret.other) = 1)) =>
    LET n == IF len(self) = 0 \/ len(ret.other) = 0 THEN 0
             ELSE Larger(len(self), len(ret.other))
    IN  /\ ret.out.t = "ndarray"
        /\ ret.out.shape = <<n>>
        /\ Len(ret.out.data) = n
        /\ \A k \in 0..(n - 1) :
             ret.out.data[k + 1] =
               IF ret.op = "euclid_dist" THEN Dist(Paired(self, k), Paired(ret.other, k))
               ELSE DistSquared(Paired(self, k), Paired(ret.other, k))
        /\ ret.other = self => \A k \in 1..n : ret.out.data[k] = 0

\* the distances of a 1-row array to the rows of a 2-row array, not all equal
C10_Witness ==
  /\ ret.op = "euclid_dist"
  /\ ret.arg.t = "ALIGNED"
  /\ len(self) = 1
  /\ len(ret.other) = 2
  /\ ret.out.shape = <<2>>
  /\ ret.out.data[1] # ret.out.data[2]


\* ------------------------------------------ claims on Vector2D, Coordinate
\* the call pairs the rows of the receiver with the rows of its operand
IsAlignedCall ==
  \/ ret.op \in {"geo_dist", "geo_dist_squared", "bearing", "geo_dist_and_bearing",
                 "project_onto", "angle_to"}
  \/ ret.op \in {"euclid_dist", "euclid_dist_squared"} /\ ret.arg.t = "ALIGNED"

\* C11: euclid_dist and euclid_dist_squared with pairing ALIGNED, geo_dist,
\* geo_dist_squared, bearing, geo_dist_and_bearing, project_onto and angle_to
\* raise the shape error (ValueError) and give no result whenever the row
\* counts of the receiver and the operand are unequal and neither is 1.
C11_ShapeError ==
  (IsAlignedCall /\ len(self) # len(ret.other) /\ len(self) # 1 /\ len(ret.other) # 1)
    => ret.out = Raise("ValueError")

\* angle_to of a 2-row vector and a 3-row vector raised
C11_Witness ==
  /\ ret.op = "angle_to"
  /\ len(self) = 2
  /\ len(ret.other) = 3
  /\ ret.out = Raise("ValueError")


\* the magnitude and direction arguments of a construction: how many values
\* an argument holds (a scalar holds one), its k-th value when broadcast, and
\* an angle in radians
ArgCount(x) == IF x.t = "float" THEN 1 ELSE Len(x.items)
ArgValue(x, k) == IF x.t = "float" THEN x.v ELSE x.items[k]
InRadians(x, units) == IF units = "DEGREES" THEN deg2rad(x) ELSE x

VectorRowCount ==
  IF ret.arg.magnitude.t = "float" THEN ArgCount(ret.arg.direction) ELSE ArgCount(ret.arg.magnitude)

\* C12: Vector2D(magnitude, direction, direction_units) with a scalar magnitude
\* and N directions, N magnitudes and a scalar direction, two sequences of
\* equal length N, or two scalars (N = 1) gives a Vector2D of N rows, row k
\* being (m_k * cos(d_k), m_k * sin(d_k)) for the k-th broadcast pair, where d_k
\* is the direction in radians (converted from degrees when given in degrees).
C12_Construct ==
  (/\ ret.op = "Vector2D"
   /\ \/ ret.arg.magnitude.t = "float"
      \/ ret.arg.direction.t = "float"
      \/ ArgCount(ret.arg.magnitude) = ArgCount(ret.arg.direction))
    => /\ ret.out.t = "Vector2D"
       /\ ret.out.shape = <<VectorRowCount, 2>>
       /\ \A k \in 1..VectorRowCount :
            Row(ret.out, k - 1) =
              <<ArgValue(ret.arg.magnitude, k)
                  * Cos(InRadians(ArgValue(ret.arg.direction, k), ret.arg.direction_units)),
                ArgValue(ret.arg.magnitude, k)
                  * Sin(InRadians(ArgValue(ret.arg.direction, k), ret.arg.direction_units))>>

C12_Witness ==
  /\ ret.op = "Vector2D"
  /\ ret.arg.direction_units = "DEGREES"
  /\ ret.arg.magnitude = Float(3)
  /\ ret.arg.direction = List(<<rad2deg(4), rad2deg(3)>>)
  /\ ret.out.t = "Vector2D"
  /\ ret.out.shape = <<2, 2>>
  /\ Row(ret.out, 0) = <<-3, -3>>
  /\ Row(ret.out, 1) = <<-3, 0>>

BothSequences == ret.arg.magnitude.t = "list" /\ ret.arg.direction.t = "list"

\* C13 as stated: with magnitude and direction both sequences of unequal
\* lengths, also when one of them has length 1, construction raises and gives
\* no vector.
C13_UnequalSequencesFail ==
  (/\ ret.op = "Vector2D"
   /\ BothSequences
   /\ ArgCount(ret.arg.magnitude) # ArgCount(ret.arg.direction))
    => IsRaise(ret.out)

\* C13: with magnitude and direction both sequences of unequal lengths,
\* construction raises ValueError, and the caller gets no vector, when neither
\* length is 1; a sequence of length 1 broadcasts as a scalar does, and
\* construction gives a Vector2D with as many rows as the other sequence has.
C13_UnequalSequences ==
  (/\ ret.op = "Vector2D"
   /\ BothSequences
   /\ ArgCount(ret.arg.magnitude) # ArgCount(ret.arg.direction))
    => IF ArgCount(ret.arg.magnitude) # 1 /\ ArgCount(ret.arg.direction) # 1
         THEN ret.out = Raise("ValueError") /\ self = None
         ELSE /\ ret.out.t = "Vector2D"
              /\ len(ret.out) = IF ArgCount(ret.arg.magnitude) = 1
                                  THEN ArgCount(ret.arg.direction)
                                  ELSE ArgCount(ret.arg.magnitude)

C13_Witness ==
  /\ ret.op = "Vector2D"
  /\ ret.arg.magnitude = List(<<3, 3>>)
  /\ ret.arg.direction = List(<<>>)
  /\ ret.out = Raise("ValueError")
  /\ self = None

C13_WitnessLengthOne ==
  /\ ret.op = "Vector2D"
  /\ ret.arg.magnitude = List(<<3>>)
  /\ ret.arg.direction = List(<<0, 3>>)
  /\ ret.out.t = "Vector2D"
  /\ len(ret.out) = 2

\* the direction of row k of v, a 1-row v standing for every row
DirectionOf(v, k) == Elem(direction(v), k)

\* C14: when angle_to returns, every element k of the result satisfies
\* (self.direction[k] + result[k]) mod 2 pi = v_towards.direction[k], the
\* directions being those the direction property gives, in [0, 2 pi).
C14_AngleToAddsUp ==
  (ret.op = "angle_to" /\ ~IsRaise(ret.out))
    => \A k \in 1..Len(ret.out.data) :
         /\ DirectionOf(self, k) \in 0..(TwoPi - 1)
         /\ DirectionOf(ret.other, k) \in 0..(TwoPi - 1)
         /\ (DirectionOf(self, k) + ret.out.data[k]) % TwoPi = DirectionOf(ret.other, k)

C14_Witness ==
  /\ ret.op = "angle_to"
  /\ direction(self).data = <<0, 4>>
  /\ direction(ret.other).data = <<4, 3>>
  /\ ret.out.data = <<-2, -1>>

\* C15 as stated: every value angle_to returns lies in (-pi, pi], so it is
\* never -pi or less.
C15_HalfOpenAbove ==
  (ret.op = "angle_to" /\ ~IsRaise(ret.out))
    => \A k \in 1..Len(ret.out.data) : ret.out.data[k] > -Pi /\ ret.out.data[k] <= Pi

\* C15: every value angle_to returns lies in [-pi, pi): it is never pi, and it
\* is exactly -pi when the two directions differ by exactly pi, whichever of
\* the two is the larger.
C15_HalfOpenBelow ==
  (ret.op = "angle_to" /\ ~IsRaise(ret.out))
    => \A k \in 1..Len(ret.out.data) :
         /\ ret.out.data[k] >= -Pi
         /\ ret.out.data[k] < Pi
         /\ Abs(DirectionOf(ret.other, k) - DirectionOf(self, k)) = Pi => ret.out.data[k] = -Pi

C15_Witness ==
  /\ ret.op = "angle_to"
  /\ direction(self).data = <<0, 3>>
  /\ direction(ret.other).data = <<3, 0>>
  /\ ret.out.data = <<-Pi, -Pi>>

\* v_towards.angle_to(self): the call of the state the other way round
AngleBack == angle_to(ret.other, self)

\* C16 as stated: a.angle_to(b) = -b.angle_to(a) in every row.
C16_Antisymmetric ==
  (ret.op = "angle_to" /\ ~IsRaise(ret.out))
    => /\ ~IsRaise(AngleBack)
       /\ \A k \in 1..Len(ret.out.data) : ret.out.data[k] = -AngleBack.data[k]

\* C16: a.angle_to(b) = -b.angle_to(a) in every row whose two directions do
\* not differ by exactly pi; in a row whose directions differ by exactly pi
\* both calls give -pi.
C16_AntisymmetricButAtPi ==
  (ret.op = "angle_to" /\ ~IsRaise(ret.out))
    => /\ ~IsRaise(AngleBack)
       /\ AngleBack.shape = ret.out.shape
       /\ \A k \in 1..Len(ret.out.data) :
            IF Abs(DirectionOf(ret.other, k) - DirectionOf(self, k)) = Pi
              THEN ret.out.data[k] = -Pi /\ AngleBack.data[k] = -Pi
              ELSE ret.out.data[k] = -AngleBack.data[k]

C16_Witness ==
  /\ ret.op = "angle_to"
  /\ direction(self).data = <<0, 4>>
  /\ direction(ret.other).data = <<3, 0>>
  /\ ret.out.data = <<-Pi, 2>>
  /\ AngleBack.data = <<-Pi, -2>>

\* C17: circle_around on a Coordinate of more than 1 row raises AssertionError
\* and returns nothing; a call that returns a Coordinate was made on a
\* Coordinate of exactly 1 row.
C17_SingleRowOnly ==
  ret.op = "circle_around"
    => /\ len(self) > 1 => ret.out = Raise("AssertionError")
       /\ ~IsRaise(ret.out) => len(self) = 1 /\ ret.out.t = "Coordinate"

C17_Witness ==
  /\ ret.op = "circle_around"
  /\ len(self) = 2
  /\ ret.arg.number_of_points = 2
  /\ ret.out = Raise("AssertionError")

C17_WitnessSingleRow ==
  /\ ret.op = "circle_around"
  /\ len(self) = 1
  /\ ret.arg.number_of_points = 2
  /\ ret.out.t = "Coordinate"

\* C18 as stated: on a 1-row Coordinate and number_of_points n >= 1,
\* circle_around(radius, n) returns a Coordinate of exactly n rows, row k
\* (k = 0..n-1) being self shifted by radius at bearing k * (2 pi / n).
C18_CircleRows ==
  (ret.op = "circle_around" /\ len(self) = 1 /\ ret.arg.number_of_points >= 1)
    => /\ ret.out.t = "Coordinate"
       /\ len(ret.out) = ret.arg.number_of_points
       /\ \A k \in 0..(ret.arg.number_of_points - 1) :
            Row(ret.out, k) =
              Row(shifted(self, Float(ret.arg.radius),
                          Float(k * Div(TwoPi, ret.arg.number_of_points))), 0)

\* a circle that comes back with one row more than number_of_points
C18_OneRowMore ==
  /\ ret.op = "circle_around"
  /\ len(self) = 1
  /\ ret.arg.number_of_points = 5
  /\ ret.out.t = "Coordinate"
  /\ len(ret.out) = 6

\* a circle that comes back with number_of_points rows
C18_ExactRows ==
  /\ ret.op = "circle_around"
  /\ len(self) = 1
  /\ ret.arg.number_of_points = 3
  /\ ret.out.t = "Coordinate"
  /\ len(ret.out) = 3

\* the k-th sample bearing of the ellipse call of the state (k from 0)
SampleBearing(k) == k * Div(TwoPi, ret.arg.number_of_points)

\* C19: ellipse_around(major_radius, minor_radius, major_axis_bearing, n) on a
\* Coordinate of more than 1 row raises the AssertionError of circle_around;
\* on a 1-row Coordinate it returns a Coordinate of exactly n rows, row k
\* (k = 0..n-1) being self shifted at bearing k * (2 pi / n), the bearings so
\* starting at 0 and evenly spaced, by the radius of the ellipse at that
\* bearing relative to the major axis.
C19_EllipseRows ==
  ret.op = "ellipse_around"
    => /\ len(self) > 1 => ret.out = Raise("AssertionError")
       /\ len(self) = 1 =>
            /\ ret.out.t = "Coordinate"
            /\ len(ret.out) = ret.arg.number_of_points
            /\ \A k \in 0..(ret.arg.number_of_points - 1) :
                 Row(ret.out, k) =
                   Row(shifted(self,
                               Float(ellipse_radius(ret.arg.major_radius, ret.arg.minor_radius,
                                                    SampleBearing(k) - ret.arg.major_axis_bearing)),
                               Float(SampleBearing(k))), 0)

C19_Witness ==
  /\ ret.op = "ellipse_around"
  /\ len(self) = 1
  /\ ret.arg.number_of_points = 5
  /\ ret.arg.major_radius > ret.arg.minor_radius
  /\ ret.out.t = "Coordinate"
  /\ len(ret.out) = 5
  /\ Row(ret.out, 1) # Row(ret.out, 0)

C19_WitnessMultiRow ==
  /\ ret.op = "ellipse_around"
  /\ len(self) = 2
  /\ ret.out = Raise("AssertionError")

\* C20: for a Coordinate c of any row count, c.geo_dist(c),
\* c.geo_dist_squared(c) and c.bearing(c) are arrays of len(c) elements, each
\* exactly 0.
C20_ZeroToItself ==
  (ret.op \in {"geo_dist", "geo_dist_squared", "bearing"} /\ ret.other = self)
    => /\ ret.out.t = "ndarray"
       /\ ret.out.shape = <<len(self)>>
       /\ \A k \in 1..len(self) : ret.out.data[k] = 0

C20_Witness ==
  /\ ret.op = "geo_dist"
  /\ ret.other = self
  /\ len(self) = 2
  /\ Row(self, 0) = <<0, 1>>
  /\ Row(self, 1) = <<1, 0>>
  /\ ret.out.data = <<0, 0>>

C20_WitnessBearing ==
  /\ ret.op = "bearing"
  /\ ret.other = self
  /\ len(self) = 2
  /\ Row(self, 0) = <<1, 1>>
  /\ Row(self, 1) = <<1, 0>>
  /\ ret.out.data = <<0, 0>>

C20_WitnessSquared ==
  /\ ret.op = "geo_dist_squared"
  /\ ret.other = self
  /\ len(self) = 1
  /\ Row(self, 0) = <<1, 1>>
  /\ ret.out.data = <<0>>

\* --------------------------------------------------- shifts and back again
\* The calls of the shift tests on decimal floats: a coordinate is built from
\* degrees, shifted, and the distance and the bearing from the coordinate to
\* the shifted one are taken.

\* the distances [meters] of the shifts: none, 30 and 60 nautical miles; and
\* their bearings [radians]
ShiftDistances == {DecBase, Dec(30 * NM_TO_METERS, 0), Dec(60 * NM_TO_METERS, 0)}
ShiftBearings == {DecBase, Dec(1, 0), Dec(4, 0)}

\* a scalar of S or one of the sequences in seqs
ScalarOrOneOf(S, seqs) == {Float(v) : v \in S} \cup {List(q) : q \in seqs}

\* with a coordinate of one row or of two, the shifts are one-to-many,
\* many-to-one and of the same shape
ShiftDistanceInputs ==
  ScalarOrOneOf(ShiftDistances, {<<Dec(30 * NM_TO_METERS, 0), Dec(60 * NM_TO_METERS, 0)>>})
ShiftBearingInputs == ScalarOrOneOf(ShiftBearings, {<<Dec(1, 0), Dec(4, 0)>>})

\* the latitudes and longitudes [degrees] of the coordinates that are shifted:
\* the ones the tests draw, a middle and a high latitude
ShiftOrigins ==
  {<<Float(Dec(33, 0)), Float(Dec(34, 0))>>, <<Float(Dec(45, 0)), Float(Dec(34, 0))>>,
   <<Float(Dec(80, 0)), Float(Dec(34, 0))>>,
   <<List(<<Dec(34, 0), Dec(45, 0)>>), List(<<Dec(33, 0), Dec(34, 0)>>)>>,
   <<List(<<Dec(33, 0), Dec(80, 0)>>), List(<<Dec(34, 0), Dec(33, 0)>>)>>}

\* c = Coordinate(lat=, lon=, units=DEGREES), of one row or of two
ConstructShiftOrigin ==
  /\ ret = Idle
  /\ \E o \in ShiftOrigins :
       /\ self' = coordinate_new("Coordinate", o[1], o[2], "DEGREES")
       /\ ret' = Call("Coordinate", [lat |-> o[1], lon |-> o[2], units |-> "DEGREES"],
                      [t |-> "Coordinate"], self')

\* shifted = c.shifted(geo_dist=dist, bearing=bearing)
CallShiftedBy ==
  /\ ret = Idle
  /\ self.t = "Coordinate"
  /\ \E d \in ShiftDistanceInputs : \E b \in ShiftBearingInputs :
       ret' = Call("shifted", [geo_dist |-> d, bearing |-> b], None, shifted(self, d, b))
  /\ UNCHANGED self

\* c.geo_dist(shifted) and c.bearing(shifted), of the coordinate just shifted
CallBackToShifted ==
  /\ ret.op = "shifted"
  /\ ret.out.t = "Coordinate"
  /\ ret' = Call("geo_dist, bearing", ret.arg, ret.out,
                 Pair(geo_dist(self, ret.out), bearing(self, ret.out)))
  /\ UNCHANGED self

\* c.geo_dist_and_bearing(shifted) and shifted.geo_dist_and_bearing(c): arg
\* holds the receiver
CallGeoDistAndBearing ==
  /\ ret.op = "shifted"
  /\ ret.out.t = "Coordinate"
  /\ \/ ret' = Call("geo_dist_and_bearing", [self |-> self], ret.out,
                    geo_dist_and_bearing(self, ret.out))
     \/ ret' = Call("geo_dist_and_bearing", [self |-> ret.out], self,
                    geo_dist_and_bearing(ret.out, self))
  /\ UNCHANGED self

NextShifted ==
  \/ ConstructShiftOrigin
  \/ CallShiftedBy
  \/ CallBackToShifted
  \/ CallGeoDistAndBearing
  \/ Return

\* the shift tests' calls
SpecShifted == Init /\ [][NextShifted]_vars

\* np.allclose(a, b, rtol=0.01) of the shift tests, for one element:
\* |a - b| <= atol + rtol * |b| with the default atol of 1e-8
IsClose(a, b) ==
  /\ a # NaN
  /\ b # NaN
  /\ ~DecLess(DecEval("+", Dec(1, -8), DecEval("*", Dec(1, -2), DecAbs(b))),
              DecAbs(DecEval("-", a, b)))

\* the distance or the bearing row k was shifted by, the latitude it was
\* shifted from, and the distance and the bearing measured back to it
ShiftArg(x, k) == IF x.t = "float" THEN x.v ELSE x.items[k]
ShiftedFromLat(k) == lat(self).data[IF len(self) = 1 THEN 1 ELSE k]
BackDist(k) == item(ret.out, 1).data[k]
BackBearing(k) == item(ret.out, 2).data[k]
IsBack == ret.op = "geo_dist, bearing"

\* a latitude of at most 45 degrees, north or south
IsMidLatitude(la) == ~DecLess(DecEval("deg2rad", 45, 1), DecAbs(la))

C21_WitnessNoDistance ==
  /\ IsBack
  /\ ret.arg.geo_dist = Float(DecBase)
  /\ ret.arg.bearing = Float(Dec(1, 0))
  /\ ~IsClose(BackBearing(1), Dec(1, 0))
C21_WitnessHighLatitude ==
  /\ IsBack
  /\ len(self) = 1
  /\ ShiftedFromLat(1) = DecEval("deg2rad", 80, 1)
  /\ ret.arg.geo_dist = Float(Dec(60 * NM_TO_METERS, 0))
  /\ ret.arg.bearing = Float(Dec(1, 0))
  /\ IsClose(BackDist(1), Dec(60 * NM_TO_METERS, 0))
  /\ ~IsClose(BackBearing(1), Dec(1, 0))

\* the receiver of the geo_dist_and_bearing call just made
PairReceiver == ret.arg.self

\* C24: geo_dist_and_bearing(other) is the pair of geo_dist(other), which hands
\* the deltas to the distance kernel in the other order, and bearing(other);
\* and geo_dist_squared(other) is the squared distance of the same deltas.
C24_PairOfGeoDistAndBearing ==
  ret.op = "geo_dist_and_bearing" =>
    /\ ret.out = Pair(geo_dist(PairReceiver, ret.other), bearing(PairReceiver, ret.other))
    /\ geo_dist_squared(PairReceiver, ret.other)
         = dist_squared_jit(item(delta_east_and_north(PairReceiver, ret.other), 1),
                            item(delta_east_and_north(PairReceiver, ret.other), 2))

\* two shifted coordinates measured from the one they were shifted from, and
\* the one from the two (one-to-many and many-to-one): the deltas east and
\* north differ and neither is 0, the distances are not 0
C24_Witness ==
  /\ ret.op = "geo_dist_and_bearing"
  /\ len(PairReceiver) = 1
  /\ len(ret.other) = 2
  /\ \A k \in 1..2 :
       /\ IsDec(item(ret.out, 1).data[k])
       /\ item(ret.out, 1).data[k] # DecBase
       /\ item(delta_east_and_north(PairReceiver, ret.other), 1).data[k] # DecBase
       /\ item(delta_east_and_north(PairReceiver, ret.other), 2).data[k] # DecBase
       /\ item(delta_east_and_north(PairReceiver, ret.other), 1).data[k]
            # item(delta_east_and_north(PairReceiver, ret.other), 2).data[k]
C24_WitnessManyToOne ==
  /\ ret.op = "geo_dist_and_bearing"
  /\ len(PairReceiver) = 2
  /\ len(ret.other) = 1
  /\ \A k \in 1..2 : item(ret.out, 1).data[k] \notin {DecBase, NaN}

\* ---------------------------------------------------------------- storage
\* numpy keeps the components of an array in the cells of a buffer, and an
\* array made as a view of another lies in cells of the same buffer. Here an
\* array is held by its cells: data holds the numbers of the cells its
\* components lie in, and mem maps each cell to the float in it.

\* the cells of the array a
Cells(a) == {a.data[k] : k \in 1..Len(a.data)}

\* the array of floats the cells of a hold
Load(mem, a) == NdArray(a.t, a.shape, [k \in 1..Len(a.data) |-> mem[a.data[k]]])

\* the cells of a new array with the shape of v: the next free ones
Allocated(mem, v) == NdArray(v.t, v.shape, [k \in 1..Len(v.data) |-> Len(mem) + k])

\* target[k] = v, k counting the components of target in row-major order
setitem(mem, target, k, v) == [mem EXCEPT ![target.data[k]] = v]

\* what the caller holds: the memory, the array it constructed from a list,
\* the array it obtained from that one and how, and whether it has written
\* into one of the two since
Memory(mem, held, got, how, written) ==
  [t |-> "memory", mem |-> mem, held |-> held, got |-> got, how |-> how, written |-> written]

\* the ways of obtaining an array from an array of n rows
ByNew == {[op |-> "__new__", cls |-> cls] : cls \in Classes}
ByIndex(n) == {[op |-> "__getitem__", item |-> PyInt(i)] : i \in (-n)..(n - 1)}
BySlice(n) == {[op |-> "__getitem__", item |-> Slice(lo, hi)] : lo \in 0..(n - 1), hi \in 1..n}
BySplit(n) == {[op |-> "split", k |-> k] : k \in 1..n}
ByComponent == {[op |-> "x1"], [op |-> "x2"]}
ByCopy == {[op |-> "repeat"], [op |-> "concat"]}

\* the array obtained from a in the way how
Obtain(a, how) ==
  CASE how.op = "__new__" -> new(how.cls, a)
    [] how.op = "__getitem__" -> getitem(a, how.item)
    [] how.op = "split" -> split(a).items[how.k]
    [] how.op = "x1" -> x1(a)
    [] how.op = "x2" -> x2(a)
    [] how.op = "repeat" -> repeat(a, PyInt(1))
    [] how.op = "concat" -> concat(a.t, <<a>>)

\* every way of obtaining an array copies
NoViews(how) == FALSE

\* np.asarray of a float array, reshape, view and basic indexing give views;
\* np.repeat and np.concatenate fill a new array
IsView(how) == how.op \in {"__new__", "__getitem__", "split", "x1", "x2"}

\* the cells of the array obtained from held
ObtainedCells(mem, held, how) ==
  IF IsView(how) THEN Obtain(held, how) ELSE Allocated(mem, Obtain(Load(mem, held), how))

\* the memory once the array is obtained
ObtainedMemory(mem, held, how) ==
  IF IsView(how) THEN mem ELSE mem \o Obtain(Load(mem, held), how).data

\* self.norm as a view of the first column
norm_in_place(mem, self_) == x1(self_)

\* self.norm: np.sqrt(a[:, 0] ** 2 + a[:, 1] ** 2) is a new array
norm_stored(mem, self_) == Allocated(mem, norm(Load(mem, self_)))

\* a[a == 0] = 1: written into the cells of a
zeros_to_one_written(mem, a) ==
  [c \in 1..Len(mem) |-> IF c \in Cells(a) /\ mem[c] = 0 THEN 1 ELSE mem[c]]

\* the memory after Array2D.normalized: norm = self.norm[:, np.newaxis] is a
\* view of the norms, and norm[norm == 0] = 1 writes into it
normalized_written(mem, self_) ==
  zeros_to_one_written(mem \o norm(Load(mem, self_)).data, column_vector(norm_stored(mem, self_)))

\* the memory after Vector2D._calc_angle_diff: diff is the new array that
\* np.abs(raw_diff) % (2 * np.pi) gives, and both masked writes go into it
calc_angle_diff_written(mem, direction_from, direction_to) ==
  IF IsRaise(calc_angle_diff(direction_from, direction_to)) THEN mem
  ELSE mem \o calc_angle_diff(direction_from, direction_to).data

\* the operations by the class that has them
Operations(cls) ==
  {"normalized", "norm", "norm_squared", "x1", "x2", "split", "concat", "repeat"}
  \cup (CASE cls = "Point2D" -> {"euclid_dist", "euclid_dist_squared"}
          [] cls = "Vector2D" -> {"project_onto", "rotated", "angle_to", "direction"}
          [] cls = "Coordinate" -> {"geo_dist", "geo_dist_squared", "bearing",
                                    "geo_dist_and_bearing", "shifted", "circle_around"}
          [] OTHER -> {})

\* what the operation op returns for the receiver a and the argument b
Operation(op, a, b) ==
  CASE op = "normalized" -> normalized(a)
    [] op = "norm" -> norm(a)
    [] op = "norm_squared" -> norm_squared(a)
    [] op = "x1" -> x1(a)
    [] op = "x2" -> x2(a)
    [] op = "split" -> split(a)
    [] op = "concat" -> concat(a.t, <<a, b>>)
    [] op = "repeat" -> repeat(a, PyInt(MaxRep))
    [] op = "euclid_dist" -> euclid_dist(a, b, "ALL")
    [] op = "euclid_dist_squared" -> euclid_dist_squared(a, b, "ALIGNED")
    [] op = "project_onto" -> project_onto(a, b)
    [] op = "rotated" -> rotated(a, Float(Pi), "RADIANS")
    [] op = "angle_to" -> angle_to(a, b)
    [] op = "direction" -> direction(a)
    [] op = "geo_dist" -> geo_dist(a, b)
    [] op = "geo_dist_squared" -> geo_dist_squared(a, b)
    [] op = "bearing" -> bearing(a, b)
    [] op = "geo_dist_and_bearing" -> geo_dist_and_bearing(a, b)
    [] op = "shifted" -> shifted(a, Float(earth_radius), Float(Pi))
    [] op = "circle_around" -> circle_around(a, earth_radius, MaxPoints)

\* the memory the operation leaves: the three in-place statements of the
\* package are in normalized (which project_onto calls on its argument) and in
\* _calc_angle_diff (which angle_to calls); what an operation allocated is
\* freed when it returns
Operated(mem, op, self_, other) ==
  SubSeq(CASE op = "normalized" -> normalized_written(mem, self_)
           [] op = "project_onto" -> normalized_written(mem, other)
           [] op = "angle_to" ->
                calc_angle_diff_written(mem, direction(Load(mem, self_)), direction(Load(mem, other)))
           [] OTHER -> mem,
         1, Len(mem))

\* the arrays a caller constructs from a list: N x 2, of 1..MaxRows rows, the
\* first row (0, 0)
Sources ==
  {a \in Operands \cup VectorOperands \cup CoordinateOperands :
     len(a) \in 1..MaxRows /\ Row(a, 0) = <<0, 0>>}

\* the float a caller writes: one that no source holds
Written == {7}

\* held = cls(list): np.asarray(list, dtype=float) fills a new buffer
Allocate ==
  /\ ret = Idle
  /\ \E a \in Sources :
       /\ self' = Memory(a.data, Allocated(<<>>, a), None, None, FALSE)
       /\ ret' = Call("__new__", List(a.data), [t |-> a.t], a)

\* got is obtained from held in the way how
ObtainBy(how) ==
  /\ IsArray(Obtain(self.held, how))
  /\ self' = Memory(ObtainedMemory(self.mem, self.held, how),
                    self.held, ObtainedCells(self.mem, self.held, how), how, FALSE)
  /\ ret' = Call(how.op, how, None, Load(self'.mem, self'.got))

\* got = cls(held), got = held[i], got = held[lo:hi], got = held.split()[k],
\* got = held.x1, got = held.x2, got = held.repeat(1), got = cls.concat([held])
ObtainFrom ==
  /\ ret = Idle
  /\ self.t = "memory"
  /\ self.got = None
  /\ \/ \E how \in ByNew : ObtainBy(how)
     \/ \E how \in ByIndex(len(self.held)) : ObtainBy(how)
     \/ \E how \in BySlice(len(self.held)) : ObtainBy(how)
     \/ \E how \in BySplit(len(self.held)) : ObtainBy(how)
     \/ \E how \in ByComponent : ObtainBy(how)
     \/ \E how \in ByCopy : ObtainBy(how)

\* the arrays the caller can pass as the argument of held's operations: held
\* itself and, when it is of the same class and N x 2, got
Arguments == {"held"} \cup (IF self.got.t = self.held.t /\ Len(self.got.shape) = 2 THEN {"got"} ELSE {})

\* held.op(argument): ret keeps what held and got held before the call
CallOperation ==
  /\ ret = Idle
  /\ self.t = "memory"
  /\ ~self.written
  /\ \E op \in Operations(self.held.t) : \E b \in Arguments :
       /\ self' = [self EXCEPT !.mem = Operated(self.mem, op, self.held, self[b])]
       /\ ret' = Call(op,
                      [held |-> Load(self.mem, self.held),
                       got |-> IF self.got = None THEN None ELSE Load(self.mem, self.got)],
                      [argument |-> b],
                      Operation(op, Load(self.mem, self.held), Load(self.mem, self[b])))

\* target[k] = v for target one of held and got: ret keeps what the two held
\* before the write
WriteInPlace ==
  /\ ret = Idle
  /\ self.t = "memory"
  /\ self.got # None
  /\ ~self.written
  /\ \E target \in {"held", "got"} : \E k \in 1..Len(self[target].data) : \E v \in Written :
       /\ self' = [self EXCEPT !.mem = setitem(self.mem, self[target], k, v), !.written = TRUE]
       /\ ret' = Call("__setitem__",
                      [held |-> Load(self.mem, self.held), got |-> Load(self.mem, self.got)],
                      [target |-> target, k |-> k, v |-> v], None)

NextStorage ==
  \/ Allocate
  \/ ObtainFrom
  \/ CallOperation
  \/ WriteInPlace
  \/ Return

\* the caller's arrays in memory
SpecStorage == Init /\ [][NextStorage]_vars

\* ------------------------------------------------- inputs left as they were
\* the last call was an operation of held
IsOperated == self.t = "memory" /\ "argument" \in DOMAIN ret.other

\* C22: no operation mutates a caller-visible input: after a call of
\* normalized, norm, norm_squared, x1, x2, split, concat, repeat, euclid_dist,
\* euclid_dist_squared, project_onto, rotated, angle_to, direction, geo_dist,
\* geo_dist_squared, bearing, geo_dist_and_bearing, shifted or circle_around,
\* the receiver and the argument hold the rows they held before the call
C22_NoInputMutated ==
  IsOperated =>
    /\ Load(self.mem, self.held) = ret.arg.held
    /\ self.got # None => Load(self.mem, self.got) = ret.arg.got

\* normalized was called on an array with a row (0, 0), whose norm the call
\* replaces by 1 in place, and returned
C22_Witness ==
  /\ IsOperated
  /\ ret.op = "normalized"
  /\ len(ret.arg.held) = 2
  /\ Row(ret.arg.held, 0) = <<0, 0>>
  /\ Row(ret.arg.held, 1) # <<0, 0>>
  /\ Row(ret.out, 0) = <<0, 0>>

\* project_onto was called with a view of its receiver as the argument, and
\* angle_to with the receiver itself
C22_WitnessArgument ==
  /\ IsOperated
  /\ \/ ret.op = "project_onto" /\ ret.other.argument = "got" /\ self.how.op = "__getitem__"
     \/ ret.op = "angle_to" /\ ret.other.argument = "held" /\ len(self.held) = 2

\* ----------------------------------------------------------- shared storage
\* the last call was target[k] = v
WroteTo(target) == self.t = "memory" /\ ret.op = "__setitem__" /\ ret.other.target = target

\* got was obtained by construction from held, by integer indexing, by row
\* slicing, by split or as a component sequence
IsObtainedAsClaimed == self.how.op \in {"__new__", "__getitem__", "split", "x1", "x2"}

\* the component of a, an array of n rows, that component c of the array
\* obtained from a in the way how was taken from (both counted from 1 in
\* row-major order)
Selected(how, n, c) ==
  CASE how.op = "__new__" -> c
    [] how.op = "__getitem__" /\ how.item.t = "int" ->
         2 * (IF how.item.v < 0 THEN how.item.v + n ELSE how.item.v) + c
    [] how.op = "__getitem__" /\ how.item.t = "slice" -> 2 * SliceIndex(n, how.item.start) + c
    [] how.op = "split" -> 2 * (how.k - 1) + c
    [] how.op = "x1" -> 2 * c - 1
    [] how.op = "x2" -> 2 * c

\* C23 as stated: for an array obtained by construction from an existing
\* array, by integer indexing, by row slicing, by split or as the x1/x2
\* component sequence, a later in-place write to the obtained array is never
\* visible in the array it was obtained from, and a later write to that array
\* is never visible in the obtained one
C23_IndependentlyOwned ==
  /\ WroteTo("got") /\ IsObtainedAsClaimed => Load(self.mem, self.held) = ret.arg.held
  /\ WroteTo("held") /\ IsObtainedAsClaimed => Load(self.mem, self.got) = ret.arg.got

\* C23: an array obtained by construction from an existing array, by integer
\* indexing, by row slicing, by split or as the x1/x2 component sequence
\* shares its storage with the array it was obtained from: a write to one of
\* its components shows in the component it was taken from and in no other,
\* and a write to a component of the source shows in the component taken from
\* it, if there is one; an array obtained by repeat or concat is independent
C23_ObtainedSharesStorage ==
  /\ WroteTo("got") =>
       Load(self.mem, self.held).data =
         IF IsObtainedAsClaimed
           THEN [ret.arg.held.data EXCEPT ![Selected(self.how, len(self.held), ret.other.k)] = ret.other.v]
           ELSE ret.arg.held.data
  /\ WroteTo("held") =>
       Load(self.mem, self.got).data =
         [c \in 1..Len(ret.arg.got.data) |->
            IF IsObtainedAsClaimed /\ Selected(self.how, len(self.held), c) = ret.other.k
              THEN ret.other.v ELSE ret.arg.got.data[c]]

\* a component of held[1] was written, and the second row of held changed
C23_Witness ==
  /\ WroteTo("got")
  /\ self.how = [op |-> "__getitem__", item |-> PyInt(1)]
  /\ Row(Load(self.mem, self.held), 1) # Row(ret.arg.held, 1)
  /\ Row(Load(self.mem, self.held), 0) = Row(ret.arg.held, 0)

\* a component of held was written, and held.x2 changed
C23_WitnessSource ==
  /\ WroteTo("held")
  /\ self.how.op = "x2"
  /\ Load(self.mem, self.got) # ret.arg.got

\* the second row of held was written, and held[0:1] did not change
C23_WitnessOtherRow ==
  /\ WroteTo("held")
  /\ self.how = [op |-> "__getitem__", item |-> Slice(0, 1)]
  /\ ret.other.k > 2
  /\ Load(self.mem, self.got) = ret.arg.got

\* a component of the array that held.repeat(1) returned was written, and
\* held did not change
C23_WitnessCopy ==
  /\ WroteTo("got")
  /\ self.how.op = "repeat"
  /\ Load(self.mem, self.got) # ret.arg.got
  /\ Load(self.mem, self.held) = ret.arg.held

====
